---- MODULE Spec2Model ----
(***************************************************************************)
(* PBD (printf based debugger): the variable-change monitor.               *)
(*                                                                         *)
(* The module models the controller loop of do_analysis (main.c), the      *)
(* breakpoint table (breakpoint.c), the frame stack and the snapshot/diff  *)
(* of variables (variable.c), running against a traced child.  The child   *)
(* is the environment: it calls the monitored function F, reaches the      *)
(* statements of F, returns, writes its memory and exits.                  *)
(*                                                                         *)
(* Three specifications share the definitions:                             *)
(*   Spec     the controller loop against a child with scalar variables    *)
(*   SpecArr  var_check_changes on the arrays of one frame (byte level)    *)
(*   SpecVar  var_initialize / var_check_changes on one local scalar       *)
(***************************************************************************)
EXTENDS Integers, Sequences, FiniteSets, TLC

VARIABLES
    status,       \* child: "running", "stopped", "exited"; "done" after finish()
    cpc,          \* pt_readregister_pc(child) - 1 at the current stop
    cstack,       \* child call stack: main at the bottom, activations of F above
    gmem,         \* child data memory of the globals: name -> image
    text,         \* child text memory: address -> byte
    ncalls,       \* calls of F and passes over return addresses made so far
    context,      \* main.c: context, the array of struct function
    depth,        \* main.c: depth
    init_vars,    \* do_analysis: init_vars
    prev_bp,      \* do_analysis: prev_bp (address of the record, 0 = NULL)
    breakpoints,  \* main.c: breakpoints, address -> struct breakpoint
    evs,          \* what the last handler wrote to the output
    last,         \* observation of the last handler (pre-state facts)
    bal,          \* per depth label: 'Entering' minus 'Returning' events so far
    open,         \* labels of the 'Entering' events not yet closed by 'Returning'
    grep          \* depth labels that reported the current image of global g

vars == <<status, cpc, cstack, gmem, text, ncalls, context, depth, init_vars,
          prev_bp, breakpoints, evs, last, bal, open, grep>>

----------------------------------------------------------------------------
(* Bounds of the model.                                                    *)

MaxVal == 1       \* a word of a scalar ranges over 0..MaxVal
MaxCalls == 2    \* calls of F in a run
MaxPass == 1     \* passes of main over a return address without a call
MaxDepth == 2     \* activations of F on the child's stack
MaxDiff == 2      \* bytes of an array that differ from its snapshot
MaxWord == 2      \* SpecVar: a word of the scalar ranges over 0..MaxWord

MaxLines == 3      \* line records of F in a line table
MaxLineNos == 2    \* distinct source lines of F
MaxExprDepth == 1  \* operators nested in an operand of a statement's expression

Vals == 0..MaxVal

----------------------------------------------------------------------------
(* Generic helpers.                                                        *)

Min(S) == CHOOSE x \in S : \A y \in S : x <= y

Top(s) == s[Len(s)]

Pop(s) == SubSeq(s, 1, Len(s) - 1)

----------------------------------------------------------------------------
(* struct dw_variable (dwarf_helper.h): descriptor and values together.    *)
(* A scalar image is a pair of 64-bit words (u64_value[0..1]); for a       *)
(* byte_size of at most 8 only word 1 is compared or formatted, and it     *)
(* stands for the low byte_size bytes.  An array image is a byte sequence; *)
(* NullPtr is a freed or not yet read p_value.                             *)

NullPtr == <<>>

MATRIX_MAX_DIMENSIONS == 8

BP_OPCODE == 204

IsScalar(v) == v.var_type \in {"base", "enum", "pointer"}

IsArrayOfScalars(v) ==
    v.var_type = "array" /\ v.elem_type \in {"base", "enum", "pointer"}

DwVariable(name, scope, vtype, bsize, enc, etype, spe, epd) ==
    [name |-> name, scope |-> scope, var_type |-> vtype, byte_size |-> bsize,
     encoding |-> enc, elem_type |-> etype, size_per_element |-> spe,
     elements_per_dimension |-> epd,
     value |-> IF vtype = "array" THEN NullPtr ELSE <<0, 0>>,
     scratch_value |-> <<0, 0>>,
     initialized |-> FALSE]

\* var_read: the value read for v when its image in the child is img.
\* For byte_size <= 8 one word is read and only byte_size bytes of it are
\* ever looked at; for byte_size = 16 two words; any other size fails.
VarRead(v, img) ==
    IF IsScalar(v)
    THEN IF v.byte_size <= 8
         THEN [ok |-> TRUE, val |-> <<img[1], 0>>]
         ELSE IF v.byte_size = 16
              THEN [ok |-> TRUE, val |-> <<img[1], img[2]>>]
              ELSE [ok |-> FALSE, val |-> <<0, 0>>]
    ELSE IF IsArrayOfScalars(v)
         THEN [ok |-> TRUE, val |-> img]
         ELSE [ok |-> FALSE, val |-> <<0, 0>>]

\* memcmp(&a.u64_value, &b.u64_value, byte_size) # 0
MemcmpDiffers(a, b, bsize) ==
    IF bsize <= 8 THEN a[1] # b[1] ELSE a # b

\* var_check_changes, lines 585-591: the synthesized 'before' of the first
\* write.  Not a float: u64_value[0] is cleared (twice), u64_value[1] is
\* kept.  Float: ld_value = 0.0 clears the ten value bytes of the x87 long
\* double, i.e. word 1 and the low two bytes of word 2; the six padding
\* bytes of word 2 are kept.  Word 2 is abstracted as value part (w % 2)
\* plus padding part (w \div 2).
ZeroScratch(v) ==
    IF v.encoding # "float"
    THEN <<0, v.scratch_value[2]>>
    ELSE <<0, (v.scratch_value[2] \div 2) * 2>>

\* var_format_value: what the bytes of an image denote for the sink.
\* At most 8 bytes: the casts keep the low byte_size bytes of word 1.
\* Float of 16 bytes: %Lf of ld_value, the ten value bytes.  Other 16 byte
\* types have no case; the sink is handed both words.
FormatValue(v, img) ==
    IF v.byte_size <= 8 THEN <<img[1]>>
    ELSE IF v.encoding = "float" THEN <<img[1], img[2] % 2>>
    ELSE <<img[1], img[2]>>

\* line_default_printer: the state word, taken from v->initialized at the
\* time of the call.
StateWord(v) == IF ~v.initialized THEN "initialized" ELSE "has changed"

\* the arguments line_output is called with; off is cmp1 - v1 at the call
\* (0 for a scalar), kept to name the element an array event is about
ChangeEvent(dep, line, v, before, after, idx, off) ==
    [kind |-> "change", depth |-> dep, line |-> line, name |-> v.name,
     scope |-> v.scope, state |-> StateWord(v), before |-> before,
     after |-> after, idx |-> idx, off |-> off]

MarkEvent(kind, dep) ==
    [kind |-> kind, depth |-> dep, line |-> 0, name |-> "", scope |-> "",
     state |-> "", before |-> <<>>, after |-> <<>>, idx |-> <<>>, off |-> 0]

----------------------------------------------------------------------------
(* offmemcmp_generic (variable.c): v1 and v2 are the two buffers, p the    *)
(* 0-based offset the two pointers have reached, n the bytes left, size    *)
(* the n of the call.  A word is 8 bytes, little endian: the count of      *)
(* trailing zero bits of the XOR, divided by 8, is the index j of the      *)
(* first differing byte of the word, and                                   *)
(* trailing_zeros / (block_size << 3) = j \div block_size.                 *)

ByteAt(buf, p, oob) == IF p + 1 <= Len(buf) THEN buf[p + 1] ELSE oob

RECURSIVE OffScan(_, _, _, _, _, _, _)
OffScan(v1, v2, p, block_size, size, n, oob) ==
    IF n >= 8
    THEN LET D == {j \in 0..7 : ByteAt(v1, p + j, oob) # ByteAt(v2, p + j, oob)}
         IN  IF D # {}
             THEN ((Min(D) \div block_size) * block_size) + (size - n)
             ELSE OffScan(v1, v2, p + 8, block_size, size, n - 8, oob)
    ELSE IF n > 0
         THEN IF ByteAt(v1, p, oob) # ByteAt(v2, p, oob)
              THEN size - n
              ELSE OffScan(v1, v2, p + 1, block_size, size, n - 1, oob)
         ELSE -1

\* offmemcmp_generic(cmp1, cmp2, block_size, n), cmp1 = v1 + c, cmp2 = v2 + c
offmemcmp_generic(v1, v2, c, block_size, n, oob) ==
    OffScan(v1, v2, c, block_size, n, n, oob)

----------------------------------------------------------------------------
(* var_initialize and var_check_changes (variable.c).                      *)
(* rd maps the name of a variable to its image in the child at this stop   *)
(* (global: at its address; local: at base pointer + fp_offset).           *)

\* var_initialize, one variable, where a global keeps the snapshot it has
VarInitOne_GlobalKept(v, img) ==
    IF IsScalar(v)
    THEN IF v.scope # "global"
         THEN [v EXCEPT !.scratch_value = VarRead(v, img).val,
                        !.initialized = FALSE]
         ELSE [v EXCEPT !.initialized = TRUE]
    ELSE IF IsArrayOfScalars(v)
         THEN [v EXCEPT !.value = VarRead(v, img).val, !.initialized = TRUE]
         ELSE v

\* var_initialize, one variable
VarInitOne(v, img) ==
    IF IsScalar(v)
    THEN IF v.scope # "global"
         THEN [v EXCEPT !.scratch_value = VarRead(v, img).val,
                        !.initialized = FALSE]
         ELSE [v EXCEPT !.value = VarRead(v, img).val, !.initialized = TRUE]
    ELSE IF IsArrayOfScalars(v)
         THEN [v EXCEPT !.value = VarRead(v, img).val, !.initialized = TRUE]
         ELSE v

var_initialize(vs, rd) ==
    [i \in DOMAIN vs |-> VarInitOne(vs[i], rd[vs[i].name])]

\* lines 606-607: the snapshot takes the value just reported
StoreValue(v, val) == [v EXCEPT !.value = val]

\* lines 578-598 and 600-608: one scalar; the result is the variable and
\* the events written
ScalarCheck(v, val, line, dep) ==
    IF ~v.initialized
    THEN IF MemcmpDiffers(val, v.scratch_value, v.byte_size)
         THEN LET z == ZeroScratch(v)
              IN  [v |-> [v EXCEPT !.value = val, !.scratch_value = z,
                                   !.initialized = TRUE],
                   evs |-> <<ChangeEvent(dep, line, v, z, val, <<>>, 0)>>]
         ELSE [v |-> v, evs |-> <<>>]
    ELSE IF MemcmpDiffers(val, v.value, v.byte_size)
         THEN [v |-> StoreValue(v, val),
               evs |-> <<ChangeEvent(dep, line, v, v.value, val, <<>>, 0)>>]
         ELSE [v |-> v, evs |-> <<>>]

\* memcpy(value1.u8_value, cmp1, size_per_element): bytes past the end of
\* the buffer are whatever the heap holds there (oob)
ElemAt(buf, c, esz, oob) == [k \in 1..esz |-> ByteAt(buf, c + k - 1, oob)]

\* lines 672-686: the index of each dimension, innermost first, written
\* into index_per_dimension only while div is not zero
RECURSIVE IdxLoop(_, _, _, _, _)
IdxLoop(idx, epd, div, idx_dim, j) ==
    IF j < Len(epd) /\ div # 0
    THEN IdxLoop([idx EXCEPT ![idx_dim + 1] = div % epd[idx_dim + 1]], epd,
                 div \div epd[idx_dim + 1], idx_dim - 1, j + 1)
    ELSE idx

\* lines 660-691
IndexPerDimension(idx, v, c) ==
    IF Len(v.elements_per_dimension) = 1
    THEN [idx EXCEPT ![1] = c \div v.size_per_element]
    ELSE IdxLoop(idx, v.elements_per_dimension, c \div v.size_per_element,
                 Len(v.elements_per_dimension) - 1, 0)

\* lines 642-696: the loop over the differences of one array.  c is
\* cmp1 - v1; size is only read while c < byte_size, where it has not
\* wrapped.
RECURSIVE ArrLoop(_, _, _, _, _, _, _, _, _, _)
ArrLoop(v, v2, c, size, idx, out, changed, line, dep, oob) ==
    LET off == IF c < v.byte_size
               THEN offmemcmp_generic(v.value, v2, c, v.size_per_element,
                                      size, oob)
               ELSE -1
    IN  IF c < v.byte_size /\ off >= 0
        THEN LET c1  == c + off
                 ix  == IndexPerDimension(idx, v, c1)
                 ev  == ChangeEvent(dep, line, v,
                            ElemAt(v.value, c1, v.size_per_element, oob),
                            ElemAt(v2, c1, v.size_per_element, oob),
                            SubSeq(ix, 1, Len(v.elements_per_dimension)), c1)
             IN  ArrLoop(v, v2, c1 + v.size_per_element,
                         size - (off + v.size_per_element), ix,
                         Append(out, ev), TRUE, line, dep, oob)
        ELSE [idx |-> idx, evs |-> out, changed |-> changed]

\* lines 620-713: one array; index_per_dimension (idx) is shared by all the
\* variables of one call
ArrayCheck(v, v2, idx, line, dep, oob) ==
    LET r == ArrLoop(v, v2, 0, v.byte_size, idx, <<>>, FALSE, line, dep, oob)
    IN  [v |-> IF r.changed THEN [v EXCEPT !.value = v2] ELSE v,
         evs |-> r.evs, idx |-> r.idx]

\* var_check_changes: the loop over the variables of the frame
RECURSIVE VarCheckLoop(_, _, _, _, _, _, _, _)
VarCheckLoop(vs, i, rd, idx, out, line, dep, oob) ==
    IF i > Len(vs) THEN [vars |-> vs, evs |-> out]
    ELSE LET v == vs[i]
             val == VarRead(v, rd[v.name]).val
         IN  IF IsScalar(v)
             THEN LET r == ScalarCheck(v, val, line, dep)
                  IN  VarCheckLoop([vs EXCEPT ![i] = r.v], i + 1, rd, idx,
                                   out \o r.evs, line, dep, oob)
             ELSE IF IsArrayOfScalars(v)
                  THEN LET r == ArrayCheck(v, val, idx, line, dep, oob)
                       IN  VarCheckLoop([vs EXCEPT ![i] = r.v], i + 1, rd,
                                        r.idx, out \o r.evs, line, dep, oob)
                  ELSE VarCheckLoop(vs, i + 1, rd, idx, out, line, dep, oob)

var_check_changes(line, vs, rd, dep, oob) ==
    VarCheckLoop(vs, 1, rd, [k \in 1..MATRIX_MAX_DIMENSIONS |-> 0], <<>>,
                 line, dep, oob)

----------------------------------------------------------------------------
(* SpecArr: var_check_changes on a frame that holds two global arrays A    *)
(* and B.  The snapshots were taken by var_initialize from an all-zero     *)
(* child image; the child then changes up to MaxDiff bytes and             *)
(* var_check_changes runs at the next statement stop.                      *)

RECURSIVE Prod(_)
Prod(s) == IF s = <<>> THEN 1 ELSE s[1] * Prod(Tail(s))

\* struct dw_variable as dw_parse_variable fills it for an array
ArrVar(name, spe, epd) ==
    DwVariable(name, "global", "array", spe * Prod(epd), "signed", "base",
               spe, epd)

\* char[10], int[3], short[2][3], long double[2], long[2], char[2][2][2]
ShapesA == {<<1, <<10>>>>, <<4, <<3>>>>, <<2, <<2, 3>>>>, <<16, <<2>>>>,
            <<8, <<2>>>>, <<1, <<2, 2, 2>>>>}

\* short[2][3], char[2][2][2]
ShapesB == {<<2, <<2, 3>>>>, <<1, <<2, 2, 2>>>>}

ZeroBytes(n) == [k \in 1..n |-> 0]

NoLast == [kind |-> "none"]

UnitFrame(vs) == [vars |-> vs, return_addr |-> 0]

InitArr ==
    \E a \in ShapesA, b \in ShapesB :
        LET va == ArrVar("A", a[1], a[2])
            vb == ArrVar("B", b[1], b[2])
            m  == [n \in {"A", "B"} |->
                      IF n = "A" THEN ZeroBytes(va.byte_size)
                                 ELSE ZeroBytes(vb.byte_size)]
        IN  /\ gmem = m
            /\ context = <<UnitFrame(var_initialize(<<va, vb>>, m))>>
            /\ status = "running"
            /\ cpc = 0
            /\ cstack = <<>>
            /\ text = <<>>
            /\ ncalls = 0
            /\ depth = 1
            /\ init_vars = FALSE
            /\ prev_bp = 0
            /\ breakpoints = <<>>
            /\ evs = <<>>
            /\ last = NoLast
            /\ bal = <<>>
            /\ open = <<>>
            /\ grep = <<>>

\* the child writes one byte of an array
ArrWrite ==
    /\ ncalls < MaxDiff
    /\ \E n \in DOMAIN gmem : \E p \in DOMAIN gmem[n] :
           gmem' = [gmem EXCEPT ![n][p] = 1 - @]
    /\ ncalls' = ncalls + 1
    /\ evs' = <<>>
    /\ last' = NoLast
    /\ UNCHANGED <<status, cpc, cstack, text, context, depth, init_vars,
                   prev_bp, breakpoints, bal, open, grep>>

\* var_check_changes(prev_bp, f->vars, child, current_depth) at a stop
ArrCheck ==
    /\ \E oob \in 0..1 :
         LET f == Top(context)
             r == var_check_changes(11, f.vars, gmem, Len(context), oob)
         IN  /\ context' = [context EXCEPT ![Len(context)].vars = r.vars]
             /\ evs' = r.evs
             /\ last' = [kind |-> "check", pre |-> f.vars, img |-> gmem]
    /\ UNCHANGED <<status, cpc, cstack, gmem, text, ncalls, depth, init_vars,
                   prev_bp, breakpoints, bal, open, grep>>

NextArr == ArrWrite \/ ArrCheck

SpecArr == InitArr /\ [][NextArr]_vars

\* the elements of array v whose bytes differ between old and new, ascending
ElemBytes(buf, e, esz) == [k \in 1..esz |-> buf[e * esz + k]]

RECURSIVE ExpectedFrom(_, _, _, _)
ExpectedFrom(v, new, e, n) ==
    IF e >= n THEN <<>>
    ELSE LET o == ElemBytes(v.value, e, v.size_per_element)
             w == ElemBytes(new, e, v.size_per_element)
         IN  (IF o # w THEN <<[elem |-> e, before |-> o, after |-> w]>>
              ELSE <<>>)
             \o ExpectedFrom(v, new, e + 1, n)

Expected(v, new) ==
    ExpectedFrom(v, new, 0, v.byte_size \div v.size_per_element)

EventsOf(name) == SelectSeq(evs, LAMBDA e : e.kind = "change" /\ e.name = name)

Reported(name) ==
    [i \in DOMAIN EventsOf(name) |->
        [before |-> EventsOf(name)[i].before, after |-> EventsOf(name)[i].after]]

Wanted(v, new) ==
    [i \in DOMAIN Expected(v, new) |->
        [before |-> Expected(v, new)[i].before,
         after |-> Expected(v, new)[i].after]]

\* C5: after var_check_changes, the events of each array are exactly the
\* elements that differ between snapshot and new image, one event each, in
\* ascending element order, with the element's old and new bytes.
C5_ArrayElementwise ==
    last.kind = "check" =>
        \A i \in DOMAIN last.pre :
            Reported(last.pre[i].name)
                = Wanted(last.pre[i], last.img[last.pre[i].name])

RECURSIVE Linear(_, _)
Linear(idx, epd) ==
    IF idx = <<>> THEN 0
    ELSE idx[1] * Prod(Tail(epd)) + Linear(Tail(idx), Tail(epd))

VarNamed(vs, name) == vs[CHOOSE i \in DOMAIN vs : vs[i].name = name]

\* C6: every array event carries a multi-index inside the dimensions that
\* linearizes to the element number (byte offset / element size).
C6_MultiIndex ==
    last.kind = "check" =>
        \A i \in DOMAIN evs :
            LET e == evs[i]
                v == VarNamed(last.pre, e.name)
                d == v.elements_per_dimension
            IN  /\ \A j \in DOMAIN d : 0 <= e.idx[j] /\ e.idx[j] < d[j]
                /\ Linear(e.idx, d) = e.off \div v.size_per_element

----------------------------------------------------------------------------
(* SpecVar: one local scalar x of one frame.  VarEnter is the first        *)
(* statement stop of an activation (init_vars set: var_initialize, then    *)
(* var_check_changes); VarStop is every later statement stop; VarWrite is  *)
(* the child writing x.  The stack slot of x holds any bytes on entry.     *)

\* <<byte_size, encoding, var_type>>: int, double, long double, __int128,
\* pointer
VarKinds == {<<4, "signed", "base">>, <<8, "float", "base">>,
             <<16, "float", "base">>, <<16, "signed", "base">>,
             <<8, "pointer", "pointer">>}

Words == 0..MaxWord

Images(v) ==
    IF v.byte_size <= 8 THEN {<<w>> : w \in Words}
    ELSE {<<w1, w2>> : w1 \in Words, w2 \in Words}

NoImg == <<>>

\* an activation of the child: its return address, the images of its
\* locals, whether it has reached a statement, the line of its last stop
\* and the images the variables had at its last statement stop
Activation(ra, loc) ==
    [ra |-> ra, loc |-> loc, seen |-> FALSE, lastline |-> 0,
     lastimg |-> NoImg]

TheVar == Top(context).vars[1]

InitKinds(K) ==
    \E k \in K :
        LET v == DwVariable("x", "local", k[3], k[1], k[2], "", 0, <<>>)
        IN  /\ context = <<UnitFrame(<<v>>)>>
            /\ \E img \in Images(v) :
                   cstack = <<Activation(0, [n \in {"x"} |-> img])>>
            /\ gmem = <<>>
            /\ status = "running"
            /\ cpc = 0
            /\ text = <<>>
            /\ ncalls = 0
            /\ depth = 0
            /\ init_vars = TRUE
            /\ prev_bp = 0
            /\ breakpoints = <<>>
            /\ evs = <<>>
            /\ last = [kind |-> "none", had |-> FALSE, after |-> <<>>,
                       was_had |-> FALSE, was_after |-> <<>>]
            /\ bal = <<>>
            /\ open = <<>>
            /\ grep = <<>>

InitVar == InitKinds(VarKinds)

\* F is entered: the slot of x holds whatever the stack held
VarCall ==
    /\ ~init_vars
    /\ \E img \in Images(TheVar) :
           cstack' = [cstack EXCEPT ![1].loc = [n \in {"x"} |-> img]]
    /\ init_vars' = TRUE
    /\ evs' = <<>>
    /\ last' = [last EXCEPT !.kind = "none"]
    /\ UNCHANGED <<status, cpc, gmem, text, ncalls, context, depth, prev_bp,
                   breakpoints, bal, open, grep>>

\* the child writes x
VarWrite ==
    /\ ~init_vars
    /\ \E img \in Images(TheVar) :
           /\ img # cstack[1].loc["x"]
           /\ cstack' = [cstack EXCEPT ![1].loc = [n \in {"x"} |-> img]]
    /\ evs' = <<>>
    /\ last' = [last EXCEPT !.kind = "none"]
    /\ UNCHANGED <<status, cpc, gmem, text, ncalls, context, depth, init_vars,
                   prev_bp, breakpoints, bal, open, grep>>

\* the word a failed PTRACE_PEEKDATA leaves in the caller's hands: the -1
\* of ptrace, returned by pt_readmemory64 as data
ErrWord == MaxWord + 1

\* what var_read stores for v when every PTRACE_PEEKDATA fails
ErrImage(v) == IF v.byte_size <= 8 THEN <<ErrWord>> ELSE <<ErrWord, ErrWord>>

\* var_initialize, lines 504-506, 514-516 and 534-536: var_read returns an
\* error for one of the scalars or arrays of scalars
VarInitFails(vs, rd) ==
    \E i \in DOMAIN vs :
        /\ IsScalar(vs[i]) \/ IsArrayOfScalars(vs[i])
        /\ ~VarRead(vs[i], rd[vs[i].name]).ok

\* do_analysis, lines 325-337, at a statement stop of the frame; failed:
\* the reads of the child's memory at this stop report an error
VarStopOn(failed) ==
    LET f  == Top(context)
        rd == IF failed
              THEN [n \in DOMAIN Top(cstack).loc |-> ErrImage(TheVar)]
              ELSE Top(cstack).loc
        vs == IF init_vars THEN var_initialize(f.vars, rd) ELSE f.vars
        r  == var_check_changes(11, vs, rd, Len(context), 0)
        h  == IF init_vars THEN FALSE ELSE last.had
        a  == IF init_vars THEN <<>> ELSE last.after
    IN  /\ status = "running"
        /\ IF init_vars /\ VarInitFails(f.vars, rd)
           THEN /\ status' = "quit"
                /\ evs' = <<>>
                /\ UNCHANGED <<context, init_vars, last>>
           ELSE /\ context' = [context EXCEPT ![Len(context)].vars = r.vars]
                /\ init_vars' = FALSE
                /\ evs' = r.evs
                /\ last' = [kind |-> IF failed THEN "failed" ELSE "check",
                            was_had |-> h, was_after |-> a,
                            had |-> h \/ r.evs # <<>>,
                            after |-> IF r.evs # <<>>
                                      THEN r.evs[Len(r.evs)].after
                                      ELSE a]
                /\ UNCHANGED status
        /\ UNCHANGED <<cpc, cstack, gmem, text, ncalls, depth,
                       prev_bp, breakpoints, bal, open, grep>>

VarStop == VarStopOn(FALSE)

NextVar == VarCall \/ VarWrite \/ VarStop

SpecVar == InitVar /\ [][NextVar]_vars

----------------------------------------------------------------------------
(* SpecRead: the same frame, where the variable can also have a byte size  *)
(* var_read has no case for, and where the reads of a stop can fail.       *)

\* base types of 12 bytes (a 12-byte integer) and of 32 bytes
\* (long double _Complex), next to the kinds above
ReadKinds == VarKinds \cup {<<12, "signed", "base">>, <<32, "float", "base">>}

InitRead == InitKinds(ReadKinds)

\* a statement stop at which PTRACE_PEEKDATA fails
VarStopFailed == VarStopOn(TRUE)

NextRead == VarCall \/ VarWrite \/ VarStop \/ VarStopFailed

SpecRead == InitRead /\ [][NextRead]_vars

\* C4: in every activation the first event of a local scalar says
\* 'initialized' with the encoding's zero as before-value, whatever the
\* slot held on entry; every later event says 'has changed' with the
\* previous event's after-value as before-value.
C4_InitThenChanged ==
    last.kind = "check" =>
        \A i \in DOMAIN evs :
            IF ~last.was_had
            THEN /\ evs[i].state = "initialized"
                 /\ FormatValue(TheVar, evs[i].before)
                        = FormatValue(TheVar, <<0, 0>>)
            ELSE /\ evs[i].state = "has changed"
                 /\ FormatValue(TheVar, evs[i].before)
                        = FormatValue(TheVar, last.was_after)

----------------------------------------------------------------------------
(* Spec: the loop of do_analysis against a child.                          *)
(*                                                                         *)
(* The child's text: F starts at LowPc; S1 and S2 are the statements of F  *)
(* (all-statements plan).  F calls itself at two sites: one inside a       *)
(* statement, returning to RX, and one that ends the statement before S2,  *)
(* returning to S2 (as in  if (c) F(n - 1);  followed by the statement at  *)
(* S2).  main calls F at two sites, returning to RM1 and RM2, and main can *)
(* also reach RM1 and RM2 on a path that does not call F.                  *)

LowPc == 1
S1 == 2
S2 == 3
RX == 4
RM1 == 5
RM2 == 6

Addrs == {LowPc, S1, S2, RX, RM1, RM2}

\* the statement-begin line records of F: address -> source line
Lines == [a \in {LowPc, S1, S2} |-> 9 + a]

\* line types of struct dw_line
LBEGIN_STMT == 1
LEND_SEQ == 2
LBLOCK == 4

\* struct dw_line
DwLine(addr, line_no, line_type) ==
    [addr |-> addr, line_no |-> line_no, line_type |-> line_type]

\* the line table dw_get_all_lines returns for F
FLines ==
    <<DwLine(LowPc, Lines[LowPc], LBEGIN_STMT),
      DwLine(S1, Lines[S1], LBEGIN_STMT),
      DwLine(S2, Lines[S2], LBEGIN_STMT)>>

\* sizeof(long): the bytes one PTRACE_PEEKDATA or PTRACE_POKEDATA moves
WordBytes == 8

\* the byte the program has at an address
OrigByte(a) == 100 + a

\* the child's text before any breakpoint is installed
OrigText == [a \in 1..(RM2 + WordBytes - 1) |-> OrigByte(a)]

\* pt_readmemory64: the word at addr, byte 0 the least significant
pt_readmemory64(mem, addr) == [i \in 0..(WordBytes - 1) |-> mem[addr + i]]

\* pt_writememory64
pt_writememory64(mem, addr, data) ==
    [a \in DOMAIN mem |->
        IF addr <= a /\ a < addr + WordBytes THEN data[a - addr] ELSE mem[a]]

\* insn & 0xFF replaced by the byte: the rest of the word is lost
SetLowByte_Truncating(insn, byte) ==
    [i \in DOMAIN insn |-> IF i = 0 THEN byte ELSE 0]

\* (insn & ~0xFF) | byte
SetLowByte(insn, byte) == [insn EXCEPT ![0] = byte]

\* struct breakpoint
Breakpoint(addr, orig, line) ==
    [addr |-> addr, original_byte |-> orig, line_no |-> line]

\* the last statement-begin record of the line table with address a
LastRecordAt(lines, a) ==
    LET I == {i \in DOMAIN lines :
                 lines[i].addr = a /\ lines[i].line_type = LBEGIN_STMT}
    IN  lines[CHOOSE i \in I : \A k \in I : k <= i]

\* bp_createlist: one record per address (hashtable_add replaces the value
\* of a key it already has), original_byte still 0
bp_createlist(lines) ==
    [a \in {lines[i].addr : i \in {k \in DOMAIN lines :
                                      lines[k].line_type = LBEGIN_STMT}} |->
        Breakpoint(a, 0, LastRecordAt(lines, a).line_no)]

\* bp_insertbreakpoint
bp_insertbreakpoint(txt, addr) ==
    IF addr = 0 THEN txt
    ELSE pt_writememory64(txt, addr,
                          SetLowByte(pt_readmemory64(txt, addr), BP_OPCODE))

\* bp_insertbreakpoints: the records in the order the table is walked
RECURSIVE InsertLoop(_, _, _)
InsertLoop(tab, txt, todo) ==
    IF todo = {} THEN [tab |-> tab, text |-> txt]
    ELSE LET a == Min(todo)
             b == [tab[a] EXCEPT
                      !.original_byte = pt_readmemory64(txt, a)[0]]
         IN  InsertLoop([tab EXCEPT ![a] = b],
                        bp_insertbreakpoint(txt, a), todo \ {a})

bp_insertbreakpoints(tab, txt) == InsertLoop(tab, txt, DOMAIN tab)

\* bp_createbreakpoint without the lookup: the record is made again
bp_createbreakpoint_Again(tab, txt, addr) ==
    [a \in DOMAIN tab \cup {addr} |->
        IF a = addr
        THEN Breakpoint(addr, pt_readmemory64(txt, addr)[0], 0)
        ELSE tab[a]]

\* bp_createbreakpoint: the table afterwards
bp_createbreakpoint(tab, txt, addr) ==
    IF addr \in DOMAIN tab THEN tab
    ELSE [a \in DOMAIN tab \cup {addr} |->
             IF a = addr
             THEN Breakpoint(addr, pt_readmemory64(txt, addr)[0], 0)
             ELSE tab[a]]

\* bp_createbreakpoint: the child's text afterwards
bp_createbreakpoint_text(tab, txt, addr) ==
    IF addr \in DOMAIN tab THEN txt ELSE bp_insertbreakpoint(txt, addr)

\* bp_skipbreakpoint up to the single-step: the word is read and written
\* back with the original byte
SkipRestore(txt, bp) ==
    SetLowByte(pt_readmemory64(txt, bp.addr), bp.original_byte)

\* a step-over that leaves the original byte in place
SkipRearm_Unarmed(txt, bp, insn) == txt

\* bp_skipbreakpoint, re-arm: the word read before the single-step is
\* written back with the trap opcode
SkipRearm(txt, bp, insn) ==
    pt_writememory64(txt, bp.addr, SetLowByte(insn, BP_OPCODE))

\* bp_skipbreakpoint: the original byte is written, the instruction is
\* stepped, the trap opcode is written again
bp_skipbreakpoint(txt, bp) ==
    LET insn     == SkipRestore(txt, bp)
        restored == pt_writememory64(txt, bp.addr, insn)
    IN  SkipRearm(restored, bp, insn)

\* the variables of F: int g (global), int x (local)
MainVars ==
    <<DwVariable("g", "global", "base", 4, "signed", "", 0, <<>>),
      DwVariable("x", "local", "base", 4, "signed", "", 0, <<>>)>>

\* struct function
Function(vs, ra) == [vars |-> vs, return_addr |-> ra]

\* var_new_context: the frame pushed for a recursive entry
var_new_context(prev_ctx) ==
    Function([i \in DOMAIN prev_ctx.vars |->
                 [prev_ctx.vars[i] EXCEPT !.value = <<0, 0>>]], 0)

\* var_deallocate_context
FreeArrays(vs) ==
    [i \in DOMAIN vs |->
        IF vs[i].var_type = "array" THEN [vs[i] EXCEPT !.value = NullPtr]
        ELSE vs[i]]

\* var_deallocate_context where the pop also clears the snapshots of the
\* frame below (storage shared by the shallow copy)
var_deallocate_context_Shared(ctx, dep) ==
    IF dep > 1
    THEN LET below == Pop(ctx)
         IN  [below EXCEPT ![Len(below)].vars =
                 [i \in DOMAIN @ |-> [@[i] EXCEPT !.value = <<0, 0>>]]]
    ELSE [ctx EXCEPT ![Len(ctx)].vars = FreeArrays(@)]

var_deallocate_context(ctx, dep) ==
    IF dep > 1 THEN Pop(ctx)
    ELSE [ctx EXCEPT ![Len(ctx)].vars = FreeArrays(@)]

\* what var_read finds for each variable at this stop: a global at its
\* address, a local at the base pointer of the running activation
ChildImage(stk, gm) ==
    [n \in DOMAIN gm \cup DOMAIN Top(stk).loc |->
        IF n \in DOMAIN gm THEN gm[n] ELSE Top(stk).loc[n]]

\* the images var_read returns for the variables of a frame
ReadAll(vs, rd) ==
    [n \in {vs[i].name : i \in DOMAIN vs} |->
        VarRead(VarNamed(vs, n), rd[n]).val]

Labels == 1..(MaxDepth + 1)

\* what the child did last: what says how it came to stop, actline and
\* actimg are the line and the images of the previous stop of the running
\* activation, hline is the line of the last stop the controller handled
\* as an entry or as a statement
ChildDid(what, actline, actimg) ==
    [kind |-> "child", what |-> what, actline |-> actline,
     actimg |-> actimg, hline |-> last.hline]

Init ==
    /\ status = "running"
    /\ cpc = 0
    /\ cstack = <<Activation(0, [n \in {"x"} |-> <<0>>])>>
    /\ gmem = [n \in {"g"} |-> <<0>>]
    /\ text = bp_insertbreakpoints(bp_createlist(FLines), OrigText).text
    /\ ncalls = 0
    /\ context = <<Function(MainVars, 0)>>
    /\ depth = 0
    /\ init_vars = FALSE
    /\ prev_bp = 0
    /\ breakpoints = bp_insertbreakpoints(bp_createlist(FLines), OrigText).tab
    /\ evs = <<>>
    /\ last = [kind |-> "child", what |-> "start", actline |-> 0,
               actimg |-> NoImg, hline |-> 0]
    /\ bal = [d \in Labels |-> 0]
    /\ open = <<>>
    /\ grep = <<>>

InF == Len(cstack) > 1

\* the child stops at address a if the trap opcode is there; cpc is the
\* address of the stop, 0 while the child runs
Arrive(a) ==
    IF text[a] = BP_OPCODE
    THEN status' = "stopped" /\ cpc' = a
    ELSE status' = "running" /\ cpc' = 0

CtlUnchanged ==
    UNCHANGED <<context, depth, init_vars, prev_bp, breakpoints, bal, open>>

\* the child writes global g
ChildWriteGlobal ==
    /\ status = "running"
    /\ \E w \in Vals :
           /\ <<w>> # gmem["g"]
           /\ gmem' = [gmem EXCEPT !["g"] = <<w>>]
    /\ grep' = <<>>
    /\ evs' = <<>>
    /\ last' = ChildDid("write", 0, NoImg)
    /\ CtlUnchanged
    /\ UNCHANGED <<status, cpc, cstack, text, ncalls>>

\* the child writes the local x of one of the activations of F on its
\* stack (the running one, or through a pointer a caller passed down)
ChildWriteLocal ==
    /\ status = "running"
    /\ \E k \in 2..Len(cstack) : \E w \in Vals :
           /\ <<w>> # cstack[k].loc["x"]
           /\ cstack' = [cstack EXCEPT ![k].loc["x"] = <<w>>]
    /\ evs' = <<>>
    /\ last' = ChildDid("write", 0, NoImg)
    /\ CtlUnchanged
    /\ UNCHANGED <<status, cpc, gmem, text, ncalls, grep>>

\* the child calls F: from main, or from a statement of F
ChildCall ==
    /\ status = "running"
    /\ ncalls < MaxCalls
    /\ Len(cstack) - 1 < MaxDepth
    /\ InF => Top(cstack).seen
    /\ \E ra \in IF InF THEN {RX, S2} ELSE {RM1, RM2} : \E w \in Vals :
           cstack' = Append(cstack,
                            [Activation(ra, [n \in {"x"} |-> <<w>>])
                                EXCEPT !.lastline = Lines[LowPc]])
    /\ ncalls' = ncalls + 1
    /\ Arrive(LowPc)
    /\ evs' = <<>>
    /\ last' = ChildDid("call", 0, NoImg)
    /\ CtlUnchanged
    /\ UNCHANGED <<gmem, text, grep>>

\* the running activation of F reaches one of its statements
ChildStmt ==
    /\ status = "running"
    /\ InF
    /\ \E a \in {S1, S2} :
           /\ Arrive(a)
           /\ cstack' = [cstack EXCEPT
                  ![Len(cstack)].seen = TRUE,
                  ![Len(cstack)].lastline = Lines[a],
                  ![Len(cstack)].lastimg =
                      ReadAll(MainVars, ChildImage(cstack, gmem))]
    /\ evs' = <<>>
    /\ last' = ChildDid("stmt", Top(cstack).lastline, Top(cstack).lastimg)
    /\ CtlUnchanged
    /\ UNCHANGED <<gmem, text, ncalls, grep>>

\* the running activation of F returns to its caller
ChildReturn ==
    /\ status = "running"
    /\ InF
    /\ Top(cstack).seen
    /\ cstack' = Pop(cstack)
    /\ Arrive(Top(cstack).ra)
    /\ evs' = <<>>
    /\ last' = ChildDid("return", 0, NoImg)
    /\ CtlUnchanged
    /\ UNCHANGED <<gmem, text, ncalls, grep>>

\* main reaches the address after one of its calls of F without having
\* called F; ncalls counts these passes too
ChildPass ==
    /\ status = "running"
    /\ ~InF
    /\ ncalls < MaxCalls + MaxPass
    /\ \E a \in {RM1, RM2} :
           /\ text[a] = BP_OPCODE
           /\ Arrive(a)
    /\ ncalls' = ncalls + 1
    /\ evs' = <<>>
    /\ last' = ChildDid("pass", 0, NoImg)
    /\ CtlUnchanged
    /\ UNCHANGED <<cstack, gmem, text, grep>>

\* the child stops for a reason that is not one of the breakpoints
ChildSignal ==
    /\ status = "running"
    /\ status' = "stopped"
    /\ cpc' = 0
    /\ CtlUnchanged
    /\ UNCHANGED <<cstack, gmem, text, ncalls, grep, evs, last>>

\* the child exits
ChildExit ==
    /\ status = "running"
    /\ status' = "exited"
    /\ evs' = <<>>
    /\ last' = ChildDid("exit", 0, NoImg)
    /\ CtlUnchanged
    /\ UNCHANGED <<cpc, cstack, gmem, text, ncalls, grep>>

----------------------------------------------------------------------------
(* do_analysis: one iteration of the loop per stop of the child.           *)

\* a lookup that answers with the entry record for an unknown address
bp_findbreakpoint_Any(tab, pc) == IF pc \in DOMAIN tab THEN tab[pc] ELSE tab[LowPc]

\* bp_findbreakpoint
bp_findbreakpoint(tab, pc) == IF pc \in DOMAIN tab THEN tab[pc] ELSE NullPtr

\* pt_readreturn_address at the entry of F: the word on top of the stack
pt_readreturn_address(stk) == Top(stk).ra

\* the record of the current stop, which do_analysis does not hand over
VarCheckArg_Current(prev, bp) == bp

\* the record whose line var_check_changes is given: prev_bp
VarCheckArg(prev, bp) == prev

Stopped == status = "stopped"

Resume == status' = "running" /\ cpc' = 0

\* what the controller did with the stop: how it handled it, the depth
\* label it used, the events it wrote, and what the child's memory held
Handled(how, label, init, bpline, hline, chg) ==
    [kind |-> "handled", what |-> last.what, handled |-> how,
     label |-> label, init |-> init, bpline |-> bpline,
     prevh |-> last.hline, hline |-> hline,
     actline |-> last.actline, actimg |-> last.actimg,
     img |-> ReadAll(MainVars, ChildImage(cstack, gmem)), chg |-> chg]

\* the ptrace requests the controller has sent to a child that no longer
\* exists
Late(cmds) == [kind |-> "gone", late |-> cmds]

\* bp_skipbreakpoint and the pt_continue that follows it in do_analysis.
\* The child either stops after the single-step, or it exits during the
\* single-step (gone): pt_waitchild reaps it, its result is dropped, and the
\* word is still written and the child still continued.  The memory of a
\* child that has exited is not read again and is left as it was.
SkipAndContinue(gone, txt, bp, rec) ==
    IF gone
    THEN /\ status' = "reaped"
         /\ cpc' = 0
         /\ text' = text
         /\ last' = Late(<<"PTRACE_POKEDATA", "PTRACE_CONT">>)
    ELSE /\ Resume
         /\ text' = bp_skipbreakpoint(txt, bp)
         /\ last' = rec

\* bp == NULL: the stop is not at a known breakpoint
HandleIgnored ==
    /\ Stopped
    /\ bp_findbreakpoint(breakpoints, cpc) = NullPtr
    /\ Resume
    /\ UNCHANGED <<cstack, gmem, text, ncalls, context, depth, init_vars,
                   prev_bp, breakpoints, evs, last, bal, open, grep>>

\* pc == dw.dw_func.low_pc
EntryStop(gone) ==
    LET bp   == bp_findbreakpoint(breakpoints, cpc)
        cd   == Len(context)
        ctx1 == IF cd > 0 /\ depth > 0
                THEN Append(context, var_new_context(context[cd]))
                ELSE context
        ra   == pt_readreturn_address(cstack)
        txt1 == bp_createbreakpoint_text(breakpoints, text, ra)
    IN  /\ Stopped
        /\ bp # NullPtr
        /\ cpc = LowPc
        /\ context' = [ctx1 EXCEPT ![Len(ctx1)].return_addr = ra]
        /\ breakpoints' = bp_createbreakpoint(breakpoints, text, ra)
        /\ depth' = depth + 1
        /\ prev_bp' = bp.addr
        /\ init_vars' = TRUE
        /\ evs' = <<>>
        /\ SkipAndContinue(gone, txt1, bp,
                           Handled("entry", cd, init_vars, bp.line_no,
                                   bp.line_no, <<>>))
        /\ UNCHANGED <<cstack, gmem, ncalls, bal, open, grep>>

HandleEntry == EntryStop(FALSE)

\* pc == f->return_addr
ReturnStop(gone) ==
    LET bp == bp_findbreakpoint(breakpoints, cpc)
        cd == Len(context)
        f  == Top(context)
    IN  /\ Stopped
        /\ bp # NullPtr
        /\ cpc # LowPc
        /\ cpc = f.return_addr
        /\ evs' = <<MarkEvent("return", cd)>>
        /\ context' = var_deallocate_context(context, cd)
        /\ depth' = depth - 1
        /\ bal' = [bal EXCEPT ![cd] = @ - 1]
        /\ open' = IF open # <<>> /\ Top(open) = cd THEN Pop(open) ELSE open
        /\ SkipAndContinue(gone, text, bp,
                           Handled("return", cd, init_vars, bp.line_no,
                                   last.hline, <<>>))
        /\ UNCHANGED <<cstack, gmem, ncalls, init_vars, prev_bp, breakpoints,
                       grep>>

HandleReturn == ReturnStop(FALSE)

\* any other breakpoint: a statement of the function
StatementStop(gone) ==
    LET bp  == bp_findbreakpoint(breakpoints, cpc)
        cd  == Len(context)
        f   == Top(context)
        rd  == ChildImage(cstack, gmem)
        vs1 == IF init_vars THEN var_initialize(f.vars, rd) ELSE f.vars
        arg == VarCheckArg(prev_bp, bp.addr)
        r   == IF prev_bp # 0
               THEN var_check_changes(breakpoints[arg].line_no, vs1, rd, cd, 0)
               ELSE [vars |-> vs1, evs |-> <<>>]
        ent == IF init_vars THEN <<MarkEvent("enter", cd)>> ELSE <<>>
    IN  /\ Stopped
        /\ bp # NullPtr
        /\ cpc # LowPc
        /\ cpc # f.return_addr
        /\ evs' = ent \o r.evs
        /\ init_vars' = FALSE
        /\ context' = [context EXCEPT ![cd].vars = r.vars]
        /\ prev_bp' = bp.addr
        /\ bal' = IF init_vars THEN [bal EXCEPT ![cd] = @ + 1] ELSE bal
        /\ open' = IF init_vars THEN Append(open, cd) ELSE open
        /\ grep' = IF \E i \in DOMAIN r.evs : r.evs[i].name = "g"
                   THEN Append(grep, cd) ELSE grep
        /\ SkipAndContinue(gone, text, bp,
                           Handled("stmt", cd, init_vars, bp.line_no,
                                   bp.line_no, r.evs))
        /\ UNCHANGED <<cstack, gmem, ncalls, depth, breakpoints>>

HandleStatement == StatementStop(FALSE)

\* the child has exited: the loop ends and finish() runs
\* fn_free, var_array_free: the frame, its descriptors, their names and
\* array images are released; nothing of the frame stays allocated
fn_free(ctx) == Tail(ctx)

\* bp_list_free: every record and the table
bp_list_free(tab) == [a \in {} |-> tab[a]]

\* finish: fn_free is given element 0 of the context list, array_finish
\* releases the list's buffer but no element; context' holds the frames
\* that are still allocated afterwards
Finish ==
    /\ status = "exited"
    /\ status' = "done"
    /\ evs' = <<>>
    /\ context' = fn_free(context)
    /\ breakpoints' = bp_list_free(breakpoints)
    /\ UNCHANGED <<cpc, cstack, gmem, text, ncalls, depth, init_vars,
                   prev_bp, last, bal, open, grep>>

Next ==
    \/ ChildWriteGlobal
    \/ ChildWriteLocal
    \/ ChildCall
    \/ ChildStmt
    \/ ChildReturn
    \/ ChildPass
    \/ ChildSignal
    \/ ChildExit
    \/ HandleIgnored
    \/ HandleEntry
    \/ HandleReturn
    \/ HandleStatement
    \/ Finish

Spec == Init /\ [][Next]_vars

----------------------------------------------------------------------------
(* SpecExit: the same loop, where the child can also exit during the       *)
(* single-step of bp_skipbreakpoint (its instruction ends the process, or  *)
(* the process is killed meanwhile).                                       *)

\* the child exits during the single-step of a step-over
HandleEntryGone == EntryStop(TRUE)

HandleReturnGone == ReturnStop(TRUE)

HandleStatementGone == StatementStop(TRUE)

\* (uint64_t) -1 - 1 as main.c:249 computes pc when PTRACE_PEEKUSER fails
ErrPc == 0 - 2

\* pt_waitchild when there is no child left to wait for: wait() fails and
\* leaves status as it was, uninitialized; the macros applied to it say
\* either that the child exited or that it stopped.  In the second case the
\* loop body runs: PTRACE_PEEKUSER fails and pc is ErrPc.
WaitNoChild ==
    /\ status = "reaped"
    /\ \/ status' = "exited" /\ cpc' = cpc
       \/ status' = "nochild" /\ cpc' = ErrPc
    /\ UNCHANGED <<cstack, gmem, text, ncalls, context, depth, init_vars,
                   prev_bp, breakpoints, evs, last, bal, open, grep>>

\* main.c:254-259 for the stop that was never reported
HandleIgnoredGone ==
    /\ status = "nochild"
    /\ bp_findbreakpoint(breakpoints, cpc) = NullPtr
    /\ status' = "reaped"
    /\ cpc' = 0
    /\ last' = Late(<<"PTRACE_PEEKUSER", "PTRACE_CONT">>)
    /\ UNCHANGED <<cstack, gmem, text, ncalls, context, depth, init_vars,
                   prev_bp, breakpoints, evs, bal, open, grep>>

NextExit ==
    \/ Next
    \/ HandleEntryGone
    \/ HandleReturnGone
    \/ HandleStatementGone
    \/ WaitNoChild
    \/ HandleIgnoredGone

SpecExit == Init /\ [][NextExit]_vars

----------------------------------------------------------------------------
(* Properties of Spec.                                                     *)

\* the stop just handled was a statement stop of the running activation of F
AtStatement == last.kind = "handled" /\ last.what = "stmt"

\* the number of change events for variable n written at the stop
EventsFor(n) == Cardinality({i \in DOMAIN last.chg : last.chg[i].name = n})

\* C1: for every scalar V of the running frame and every two consecutive
\* statement stops of that frame, exactly one change event for V is written
\* while the second stop is processed if V's byte image differs between the
\* two stops, and none if it does not differ.
C1_OneEventPerTransition ==
    (AtStatement /\ last.actimg # NoImg) =>
        \A n \in DOMAIN last.img :
            EventsFor(n) = IF last.img[n] # last.actimg[n] THEN 1 ELSE 0

DepthRight == depth = Len(cstack) - 1

\* C3: every change event carries the line of the statement of the same
\* frame at which the child was stopped immediately before the write, also
\* when a recursive call was entered and returned between the two stops
\* (stated for the stops at which the controller's depth is right).
C3_CausingStatement ==
    (AtStatement /\ DepthRight) =>
        \A i \in DOMAIN last.chg : last.chg[i].line = last.actline

\* C7: a write reported as an event labelled depth 2 is not reported again
\* as an event at depth 1 after depth 2 has returned: grep holds the labels
\* of the events that reported the image global g has now (stated for the
\* stops at which the controller's depth is right).
C7_NoRepeatAtOuterDepth ==
    (AtStatement /\ DepthRight /\ last.label = 1 /\ EventsFor("g") > 0) =>
        \A i \in DOMAIN grep : grep[i] # 2

\* C8: once the child has exited, for every depth D >= 1 the number of
\* 'Entering' events labelled D equals the number of 'Returning' events
\* labelled D.
C8_EnterReturnBalanced ==
    status \in {"exited", "done"} => \A d \in DOMAIN bal : bal[d] = 0

\* C9: at every stop the controller has finished processing, its depth
\* equals the number of activations of F on the child's stack.
C9_DepthIsActivations ==
    last.kind = "handled" => DepthRight

\* C10: every change event labelled D lies between an 'Entering' event
\* labelled D and the 'Returning' event that ends it, with no enclosed
\* activation open at that point.
C10_EventsNested ==
    last.kind = "handled" =>
        \A i \in DOMAIN last.chg :
            open # <<>> /\ Top(open) = last.chg[i].depth

----------------------------------------------------------------------------
(* SpecSetup: do_analysis from the spawn to the first pass of the main     *)
(* loop (main.c:205-233), for every line table dw_get_all_lines can hand   *)
(* over for F, both plans, and every outcome of fork and execv.            *)

\* the source lines of F
LineNos == 10..(9 + MaxLineNos)

\* line records of F: line_type is the OR of the flags the line program
\* sets; is_stmt alone, none, or is_stmt with basic_block
LineRecords ==
    {DwLine(a, n, t) : a \in LowPc..(LowPc + MaxLines - 1), n \in LineNos,
                       t \in {0, LBEGIN_STMT, LBEGIN_STMT + LBLOCK}}

\* the tables dw_get_all_lines returns: the rows of the line program whose
\* address lies in F, in the order of the line program (addresses do not
\* decrease), the first one a statement row at low_pc
LineTables ==
    {t \in UNION {[1..n -> LineRecords] : n \in 1..MaxLines} :
        /\ t[1].addr = LowPc
        /\ t[1].line_type % 2 = 1
        /\ \A i \in 1..(Len(t) - 1) : t[i].addr <= t[i + 1].addr}

\* binsearch_lines: lines indexed from 0 as in the code; the result is the
\* index, or -1
RECURSIVE BinLoop(_, _, _, _)
BinLoop(lines, line_no, l, r) ==
    IF l < r
    THEN LET m == (r + l) \div 2
         IN  IF lines[m + 1].line_no < line_no
             THEN BinLoop(lines, line_no, m + 1, r)
             ELSE BinLoop(lines, line_no, l, m)
    ELSE l

\* the loop with the halves taken the other way: it ends at the last
\* record that is not greater
RECURSIVE BinLoop_Upper(_, _, _, _)
BinLoop_Upper(lines, line_no, l, r) ==
    IF l < r
    THEN LET m == (r + l + 1) \div 2
         IN  IF lines[m + 1].line_no <= line_no
             THEN BinLoop_Upper(lines, line_no, m, r)
             ELSE BinLoop_Upper(lines, line_no, l, m - 1)
    ELSE l

\* binsearch_lines that returns the rightmost occurrence
binsearch_lines_Upper(lines, line_no) ==
    LET l == BinLoop_Upper(lines, line_no, 0, Len(lines) - 1)
    IN  IF l < Len(lines) /\ lines[l + 1].line_no = line_no THEN l ELSE 0 - 1

\* array_get(&lines, l, NULL) of an empty list is slot 0 of the buffer
\* array_init zeroed: line is NULL
binsearch_lines(lines, line_no) ==
    LET l == BinLoop(lines, line_no, 0, Len(lines) - 1)
    IN  IF l < Len(lines) /\ lines[l + 1].line_no = line_no THEN l ELSE 0 - 1

\* hashtable_add of a breakpoint record: the value of a key already there
\* is replaced
TableAdd(tab, bp) ==
    [a \in DOMAIN tab \cup {bp.addr} |-> IF a = bp.addr THEN bp ELSE tab[a]]

\* try_add_symbol, the loop over the records from idx (0-based) on
RECURSIVE TryLoop(_, _, _, _)
TryLoop(tab, lines, line_no, idx) ==
    IF idx < Len(lines)
    THEN LET line == lines[idx + 1]
         IN  IF line.line_no # line_no THEN tab
             ELSE IF line.line_type # LBEGIN_STMT
                  THEN TryLoop(tab, lines, line_no, idx + 1)
             ELSE IF line.addr \in DOMAIN tab THEN tab
             ELSE TryLoop(TableAdd(tab, Breakpoint(line.addr, 0, line.line_no)),
                          lines, line_no, idx + 1)
    ELSE tab

\* try_add_symbol
try_add_symbol(tab, lines, line_no) ==
    LET idx == binsearch_lines(lines, line_no)
    IN  IF idx = 0 - 1 THEN tab ELSE TryLoop(tab, lines, line_no, idx)

\* static_analysis before the analyzer runs: the record of firstbreak and
\* the record of the last line of the table
static_analysis(lines, firstbreak) ==
    LET line == lines[Len(lines)]
    IN  TableAdd(TableAdd(<<>>, Breakpoint(firstbreak, 0, 0)),
                 Breakpoint(line.addr, 0, line.line_no))

\* what a failed PTRACE_PEEKDATA gives as original byte: -1 & 0xFF
ErrByte == 255

\* bp_insertbreakpoints in a process that traces no child: every request
\* fails, the records take the low byte of -1
InsertNoChild(tab) == [a \in DOMAIN tab |-> [tab[a] EXCEPT !.original_byte = ErrByte]]

\* the inputs of the run (the line table, FLG_STATIC_ANALYSIS and
\* FLG_IGNR_EQSTAT of args.flags) and what became of the spawn
Setup(lines, static, eqstat, proc, spawn, calls) ==
    [kind |-> "setup", lines |-> lines, static |-> static,
     eqstat |-> eqstat, proc |-> proc, spawn |-> spawn, calls |-> calls]

InitSetup ==
    /\ status = "setup"
    /\ \E t \in LineTables, st \in BOOLEAN, eq \in BOOLEAN :
           last = Setup(t, st, eq, "pbd", "none", {})
    /\ text = OrigText
    /\ breakpoints = <<>>
    /\ cpc = 0
    /\ cstack = <<>>
    /\ gmem = <<>>
    /\ ncalls = 0
    /\ context = <<>>
    /\ depth = 0
    /\ init_vars = FALSE
    /\ prev_bp = 0
    /\ evs = <<>>
    /\ bal = <<>>
    /\ open = <<>>
    /\ grep = <<>>

SetupUnchanged ==
    UNCHANGED <<cpc, cstack, gmem, ncalls, context, depth, init_vars, prev_bp,
                evs, bal, open, grep>>

\* main.c:208-216 with pt_spawnprocess and pt_waitchild.
\* fork fails: child < 0, QUIT.
\* fork and execv succeed: the child stops at its first instruction, wait
\* reports the stop.
\* execv fails: pt_spawnprocess has no exit after execv, so the forked copy
\* returns 0 from it and goes on in do_analysis as a second controller.  It
\* has no child: wait() fails and pt_waitchild tests the uninitialized
\* status, which says either exited (finish(); exit(EXIT_FAILURE), with no
\* message) or stopped (the copy goes on).
Spawn ==
    /\ status = "setup"
    /\ \/ /\ status' = "quit"
          /\ last' = [last EXCEPT !.spawn = "fork failed"]
       \/ /\ status' = "spawned"
          /\ last' = [last EXCEPT !.spawn = "ok"]
       \/ /\ status' \in {"exit_failure", "spawned"}
          /\ last' = [last EXCEPT !.spawn = "exec failed", !.proc = "copy"]
    /\ UNCHANGED <<text, breakpoints>>
    /\ SetupUnchanged

\* main.c:223-225 without FLG_STATIC_ANALYSIS
CreateList ==
    /\ status = "spawned"
    /\ ~last.static
    /\ breakpoints' = bp_createlist(last.lines)
    /\ status' = "planned"
    /\ UNCHANGED <<text, last>>
    /\ SetupUnchanged

\* main.c:223-225 with FLG_STATIC_ANALYSIS: static_analysis up to the call
\* of the analyzer
StaticStart ==
    /\ status = "spawned"
    /\ last.static
    /\ breakpoints' = static_analysis(last.lines, LowPc)
    /\ status' = "analysis"
    /\ UNCHANGED <<text, last>>
    /\ SetupUnchanged

\* the analyzer reports a source line: try_add_symbol(L)
TryAddSymbol ==
    /\ status = "analysis"
    /\ \E L \in LineNos \ last.calls :
           /\ breakpoints' = try_add_symbol(breakpoints, last.lines, L)
           /\ last' = [last EXCEPT !.calls = @ \cup {L}]
    /\ UNCHANGED <<status, text>>
    /\ SetupUnchanged

\* the analyzer is done and static_analysis returns the table
StaticDone ==
    /\ status = "analysis"
    /\ status' = "planned"
    /\ UNCHANGED <<text, breakpoints, last>>
    /\ SetupUnchanged

\* main.c:228-233: bp_insertbreakpoints and the first single-step; the
\* main loop is next
InsertBreakpoints ==
    /\ status = "planned"
    /\ IF last.proc = "pbd"
       THEN /\ breakpoints' = bp_insertbreakpoints(breakpoints, text).tab
            /\ text' = bp_insertbreakpoints(breakpoints, text).text
       ELSE /\ breakpoints' = InsertNoChild(breakpoints)
            /\ text' = text
    /\ status' = "loop"
    /\ UNCHANGED last
    /\ SetupUnchanged

NextSetup ==
    \/ Spawn
    \/ CreateList
    \/ StaticStart
    \/ TryAddSymbol
    \/ StaticDone
    \/ InsertBreakpoints

SpecSetup == InitSetup /\ [][NextSetup]_vars

\* the plan is complete
Planned ==
    last.kind = "setup" /\ last.spawn = "ok" /\ status \in {"planned", "loop"}

\* the line type has the statement-begin flag
IsStmt(line) == line.line_type % 2 = 1

\* the table is sorted by line number
SortedByLine(lines) ==
    \A i \in 1..(Len(lines) - 1) : lines[i].line_no <= lines[i + 1].line_no

\* C16: when the spawn fails (fork or execv), the run reports the error
\* and exits non-zero: no process goes on to plan or install breakpoints
\* or to enter the main loop.
C16_SpawnErrorEndsRun ==
    (last.kind = "setup" /\ last.spawn \in {"fork failed", "exec failed"}) =>
        status = "quit"

\* C18: for both plans and every line table, the planned set contains
\* F's entry address low_pc.
C18_PlanHasEntry ==
    Planned => LowPc \in DOMAIN breakpoints

\* C19: for both plans and every line table, the planned set contains the
\* address of a statement-begin record with the greatest line number, and
\* every planned address other than the entry address is the address of a
\* statement-begin record.
C19_PlanHasFinalStatement ==
    Planned =>
        LET lines == last.lines
            S == {i \in DOMAIN lines : IsStmt(lines[i])}
            F == {i \in S : \A k \in S : lines[k].line_no <= lines[i].line_no}
        IN  /\ S # {} => \E i \in F : lines[i].addr \in DOMAIN breakpoints
            /\ \A a \in DOMAIN breakpoints :
                  a = LowPc \/ \E i \in S : lines[i].addr = a

\* C20: with the static plan and a line table sorted by line number, for
\* every line L the analyzer has reported, every record of line L whose
\* type is statement-begin has its address in the planned set.
C20_ReportedLinesPlanned ==
    (last.kind = "setup" /\ last.spawn = "ok" /\ last.static
        /\ SortedByLine(last.lines)
        /\ status \in {"analysis", "planned", "loop"}) =>
        \A L \in last.calls :
            \A i \in DOMAIN last.lines :
                (last.lines[i].line_no = L
                    /\ last.lines[i].line_type = LBEGIN_STMT)
                => last.lines[i].addr \in DOMAIN breakpoints

\* ---------------------------------------------------------------------
\* Breakpoints in the child's text

\* C11: whenever the child runs after a continue, every record of the
\* breakpoint table (planned or added for a return address) has the trap
\* opcode at its address in the child's text, and its original_byte is the
\* byte the program had there before any breakpoint was installed.
C11_BreakpointAtomicity ==
    status = "running" =>
        \A a \in DOMAIN breakpoints :
            /\ breakpoints[a].addr = a
            /\ text[a] = BP_OPCODE
            /\ breakpoints[a].original_byte = OrigByte(a)

\* the child runs after a step-over, with return addresses of both callers
\* in the table
C11_Witness ==
    /\ status = "running"
    /\ last.kind = "handled"
    /\ last.handled = "stmt"
    /\ RX \in DOMAIN breakpoints
    /\ RM1 \in DOMAIN breakpoints

C13_UnknownStopIgnored ==
    [][(Stopped /\ cpc \notin DOMAIN breakpoints) =>
          /\ status' = "running"
          /\ UNCHANGED <<context, depth, init_vars, prev_bp, breakpoints,
                         text, cstack, gmem, evs, bal, open, grep>>]_vars

\* a stop with no record, inside F, after events were written
C13_Witness ==
    /\ Stopped
    /\ cpc \notin DOMAIN breakpoints
    /\ depth > 0
    /\ prev_bp # 0
    /\ Len(context) > 1
    /\ evs # <<>>

\* C14: when the child has exited, whether while running or during the
\* single-step of a step-over, no further ptrace request is sent to it.
C14_NoCommandAfterExit ==
    last.kind = "gone" => last.late = <<>>

\* C15: when the memory reads of a stop report an error, no change event
\* is computed from what the failed read returned.
C15_NoEventFromFailedRead ==
    last.kind = "failed" => evs = <<>>

\* C17: a variable whose byte size var_read has no case for is skipped: the
\* run continues and no event is written for it.
C17_UnreadableSkipped ==
    ~VarRead(TheVar, Top(cstack).loc["x"]).ok =>
        status = "running" /\ evs = <<>>

\* C22: with --avoid-equal-statements the planned set holds at most one
\* address per source line, the lowest address among the statement-begin
\* records of that line.
C22_OneAddressPerLine ==
    (Planned /\ last.eqstat) =>
        \A a \in DOMAIN breakpoints, b \in DOMAIN breakpoints :
            (breakpoints[a].line_no = breakpoints[b].line_no
                /\ breakpoints[a].line_no # 0) => a = b

----------------------------------------------------------------------------
(* SpecAnalysis: handle_stmt and handle_expr on one statement of F, taken  *)
(* from the statements that can be built from a symbol of each kind.  The  *)
(* whole statement is on one source line, so what is observed is whether   *)
(* try_add_symbol is called for it.                                        *)

\* struct symbol as the analyzer looks at it: the type get_sym_type gives
\* and where it is declared
Symbol(name, stype, scope) == [name |-> name, stype |-> stype, scope |-> scope]

\* int w at function scope, int g global, int b in an inner block,
\* struct stub_struct ss at function scope
Symbols ==
    {Symbol("w", "SYM_BASETYPE", "function"),
     Symbol("g", "SYM_BASETYPE", "global"),
     Symbol("b", "SYM_BASETYPE", "block"),
     Symbol("ss", "SYM_STRUCT", "function")}

\* is_var_symbol
is_var_symbol(sym) == sym.stype \in {"SYM_BASETYPE", "SYM_ARRAY", "SYM_PTR"}

\* is_symbol_global
is_symbol_global(sym) == sym.scope = "global"

\* should_watch_sym
should_watch_sym(sym) ==
    is_var_symbol(sym) /\ (is_symbol_global(sym) \/ sym.scope = "function")

\* struct expression
ExprSymbol(sym) == [type |-> "EXPR_SYMBOL", symbol |-> sym]
ExprValue == [type |-> "EXPR_VALUE"]
ExprCall == [type |-> "EXPR_CALL"]
ExprDeref(sym) == [type |-> "EXPR_DEREF", symbol |-> sym]
ExprPreop(op, unop) == [type |-> "EXPR_PREOP", op |-> op, unop |-> unop]
ExprPostop(unop) == [type |-> "EXPR_POSTOP", unop |-> unop]
ExprBinop(left, right) == [type |-> "EXPR_BINOP", left |-> left, right |-> right]
ExprAssignment(left, right) ==
    [type |-> "EXPR_ASSIGNMENT", left |-> left, right |-> right]

\* what can stand left of = and under ++: a variable, a member of the
\* struct (ss.foo), or what a pointer expression points to
Lvalues(E) ==
    {e \in E : e.type \in {"EXPR_SYMBOL", "EXPR_DEREF"}}
    \cup {ExprPreop("*", e) : e \in {x \in E : x.type \in {"EXPR_SYMBOL", "EXPR_BINOP"}}}

\* the expressions of C built from the symbols, a constant and a call
RECURSIVE Exprs(_)
Exprs(d) ==
    IF d = 0
    THEN {ExprSymbol(sym) : sym \in Symbols} \cup {ExprValue, ExprCall}
         \cup {ExprDeref(sym) : sym \in {x \in Symbols : x.stype = "SYM_STRUCT"}}
    ELSE LET E == Exprs(d - 1)
         IN  E \cup {ExprPreop("++", e) : e \in Lvalues(E)}
               \cup {ExprPreop("-", e) : e \in E}
               \cup Lvalues(E)
               \cup {ExprPostop(e) : e \in Lvalues(E)}
               \cup {ExprBinop(l, r) : l \in E, r \in E}
               \cup {ExprAssignment(l, r) : l \in Lvalues(E), r \in E}

\* struct statement
StmtExpression(e) == [type |-> "STMT_EXPRESSION", expression |-> e]
StmtReturn(e) == [type |-> "STMT_RETURN", expression |-> e]
StmtIf(e) == [type |-> "STMT_IF", expression |-> e]
StmtDeclaration(sym, init) ==
    [type |-> "STMT_DECLARATION", symbol |-> sym, expression |-> init]

\* the statements of F: e;  return e;  if (e) ;  T v = e;  with the
\* operators of e nested at most MaxExprDepth deep below the top one
Stmts ==
    LET E == Exprs(MaxExprDepth)
    IN  {StmtExpression(e) : e \in E} \cup {StmtReturn(e) : e \in E}
        \cup {StmtIf(e) : e \in E}
        \cup {StmtDeclaration(sym, e) : sym \in Symbols, e \in E}

\* handle_expr: TRUE when try_add_symbol is called
RECURSIVE handle_expr(_, _)
handle_expr(expr, is_assignment) ==
    CASE expr.type = "EXPR_PREOP" -> handle_expr(expr.unop, is_assignment)
      [] expr.type = "EXPR_POSTOP" -> handle_expr(expr.unop, TRUE)
      [] expr.type = "EXPR_BINOP" ->
            \/ handle_expr(expr.left, is_assignment)
            \/ IF expr.left.type = "EXPR_SYMBOL" /\ is_assignment
               THEN handle_expr(expr.right, FALSE)
               ELSE handle_expr(expr.right, is_assignment)
      [] expr.type = "EXPR_ASSIGNMENT" ->
            handle_expr(expr.left, TRUE) \/ handle_expr(expr.right, FALSE)
      [] expr.type = "EXPR_CALL" -> TRUE
      [] expr.type = "EXPR_SYMBOL" ->
            is_assignment /\ should_watch_sym(expr.symbol)
      [] OTHER -> FALSE

\* handle_stmt: TRUE when try_add_symbol is called
handle_stmt(stmt) ==
    CASE stmt.type = "STMT_EXPRESSION" -> handle_expr(stmt.expression, FALSE)
      [] stmt.type = "STMT_IF" -> handle_expr(stmt.expression, FALSE)
      [] stmt.type = "STMT_DECLARATION" ->
            IF should_watch_sym(stmt.symbol) THEN TRUE
            ELSE handle_expr(stmt.expression, FALSE)
      [] OTHER -> FALSE

InitAnalysis ==
    /\ status = "parsed"
    /\ \E st \in Stmts : last = [kind |-> "analysis", stmt |-> st]
    /\ evs = <<>>
    /\ text = <<>>
    /\ breakpoints = <<>>
    /\ cpc = 0
    /\ cstack = <<>>
    /\ gmem = <<>>
    /\ ncalls = 0
    /\ context = <<>>
    /\ depth = 0
    /\ init_vars = FALSE
    /\ prev_bp = 0
    /\ bal = <<>>
    /\ open = <<>>
    /\ grep = <<>>

\* process: the statement is walked; evs takes the calls of try_add_symbol
Analyze ==
    /\ status = "parsed"
    /\ status' = "analyzed"
    /\ evs' = IF handle_stmt(last.stmt) THEN <<"try_add_symbol">> ELSE <<>>
    /\ UNCHANGED <<last, text, breakpoints, cpc, cstack, gmem, ncalls, context,
                   depth, init_vars, prev_bp, bal, open, grep>>

NextAnalysis == Analyze

SpecAnalysis == InitAnalysis /\ [][NextAnalysis]_vars

\* the expression holds a function call
RECURSIVE HasCall(_)
HasCall(e) ==
    CASE e.type = "EXPR_CALL" -> TRUE
      [] e.type \in {"EXPR_PREOP", "EXPR_POSTOP"} -> HasCall(e.unop)
      [] e.type \in {"EXPR_BINOP", "EXPR_ASSIGNMENT"} ->
            HasCall(e.left) \/ HasCall(e.right)
      [] OTHER -> FALSE

\* the expression is a watched variable, or what a watched pointer or
\* array names: var, *var, *(var + e)
RECURSIVE NamesWatched(_)
NamesWatched(e) ==
    CASE e.type = "EXPR_SYMBOL" -> should_watch_sym(e.symbol)
      [] e.type = "EXPR_PREOP" /\ e.op = "*" -> NamesWatched(e.unop)
      [] e.type = "EXPR_BINOP" -> NamesWatched(e.left) \/ NamesWatched(e.right)
      [] OTHER -> FALSE

\* the expression holds an assignment, a post- or a pre-increment whose
\* target is a watched symbol
RECURSIVE WritesWatched(_)
WritesWatched(e) ==
    CASE e.type = "EXPR_ASSIGNMENT" ->
            NamesWatched(e.left) \/ WritesWatched(e.left)
                \/ WritesWatched(e.right)
      [] e.type = "EXPR_POSTOP" -> NamesWatched(e.unop) \/ WritesWatched(e.unop)
      [] e.type = "EXPR_PREOP" /\ e.op = "++" ->
            NamesWatched(e.unop) \/ WritesWatched(e.unop)
      [] e.type = "EXPR_PREOP" -> WritesWatched(e.unop)
      [] e.type = "EXPR_BINOP" -> WritesWatched(e.left) \/ WritesWatched(e.right)
      [] OTHER -> FALSE

\* C21: a statement is retained exactly when it holds a function call, or
\* an assignment, post-increment, pre-increment or initialized declaration
\* whose target is a watched symbol.
C21_RetentionRule ==
    (last.kind = "analysis" /\ status = "analyzed") =>
        ((evs # <<>>) <=>
            \/ HasCall(last.stmt.expression)
            \/ WritesWatched(last.stmt.expression)
            \/ /\ last.stmt.type = "STMT_DECLARATION"
               /\ should_watch_sym(last.stmt.symbol))

\* ---------------------------------------------------------------------
\* The command line: readargs, parse_list and the name filter of
\* dw_parse_variable.  last holds args (flags, iw_list) and the option
\* cursor, evs what the run printed and did.
\* ---------------------------------------------------------------------

MaxArgs == 3
MaxShortList == 1
MaxList == 3
MaxFilterArgs == 2

EXIT_SUCCESS == 0
EXIT_FAILURE == 1

\* the characters of a list argument: two letters, a blank, the separator
ListChars == {"a", "b", " ", ","}

RECURSIVE SeqsUpTo(_, _)
SeqsUpTo(S, n) ==
    IF n = 0 THEN {<<>>}
    ELSE LET shorter == SeqsUpTo(S, n - 1)
         IN  shorter \cup {Append(q, c) : q \in shorter, c \in S}

ListArgs(n) == SeqsUpTo(ListChars, n) \ {<<>>}

\* one parsed option: the value optparse_long returns and its optarg
Option(opt, optarg) == [opt |-> opt, optarg |-> optarg]

\* the options of longopts the model draws from; "?" is what optparse_long
\* returns for an option it does not know, "args" is 253
PlainOptions ==
    {Option(o, <<>>) : o \in {"h", "v", "s", "l", "g", "c", "args", "?"}}

ListOptions(n) == {Option(o, l) : o \in {"i", "w"}, l \in ListArgs(n)}

isblank(c) == c \in {" ", "\t"}

\* strtok(s, ","): the tokens are the maximal runs without a comma, empty
\* runs are skipped; every token is added to the hashtable
RECURSIVE StrtokLoop(_, _, _, _)
StrtokLoop(s, i, tok, ht) ==
    IF i > Len(s)
    THEN IF tok = <<>> THEN ht ELSE ht \cup {tok}
    ELSE IF s[i] = ","
         THEN StrtokLoop(s, i + 1, <<>>,
                         IF tok = <<>> THEN ht ELSE ht \cup {tok})
         ELSE StrtokLoop(s, i + 1, Append(tok, s[i]), ht)

\* the list without its blanks
Trimmed_Keep(list) == list

Trimmed(list) == SelectSeq(list, LAMBDA c : ~isblank(c))

\* parse_list: the hashtable, a set of names
parse_list(list) == StrtokLoop(Trimmed(list), 1, <<>>, {})

\* struct args after static initialisation
ArgsInit == [flags |-> {}, list |-> <<>>, ht_list |-> {}]

\* usage(retcode): the summary goes out, the process exits with retcode
Usage(a, out, retcode) ==
    [args |-> a, out |-> Append(out, "usage"), code |-> retcode,
     stop |-> "exit"]

\* version(): the version goes out, exit(EXIT_SUCCESS)
Version(a, out) ==
    [args |-> a, out |-> Append(out, "version"), code |-> EXIT_SUCCESS,
     stop |-> "exit"]

Continue(a, out) == [args |-> a, out |-> out, code |-> EXIT_SUCCESS,
                     stop |-> "loop"]

\* case 'i'
OptIgnoreList(a, out, optarg) ==
    IF "FLG_WATCH_LIST" \in a.flags
    THEN Usage(a, Append(out, "stderr: mutually exclusive"), EXIT_FAILURE)
    ELSE Continue([a EXCEPT !.flags = @ \cup {"FLG_IGNR_LIST"},
                            !.list = optarg], out)

\* case 'w' without its test of FLG_IGNR_LIST
OptWatchList_Unchecked(a, out, optarg) ==
    Continue([a EXCEPT !.flags = @ \cup {"FLG_WATCH_LIST"},
                       !.list = optarg], out)

\* case 'w'
OptWatchList(a, out, optarg) ==
    IF "FLG_IGNR_LIST" \in a.flags
    THEN Usage(a, Append(out, "stderr: mutually exclusive"), EXIT_FAILURE)
    ELSE Continue([a EXCEPT !.flags = @ \cup {"FLG_WATCH_LIST"},
                            !.list = optarg], out)

\* the switch of readargs for one option
ReadSwitch(a, out, o) ==
    CASE o.opt = "v" -> Version(a, out)
      [] o.opt = "h" -> Usage(a, out, EXIT_SUCCESS)
      [] o.opt = "s" ->
            Continue([a EXCEPT !.flags = @ \cup {"FLG_SHOW_LINES"}], out)
      [] o.opt = "l" ->
            Continue([a EXCEPT !.flags = @ \cup {"FLG_ONLY_LOCALS"}], out)
      [] o.opt = "g" ->
            Continue([a EXCEPT !.flags = @ \cup {"FLG_ONLY_GLOBALS"}], out)
      [] o.opt = "c" ->
            Continue([a EXCEPT !.flags = @ \cup {"FLG_SYNTAX_HIGHLIGHT"}],
                     out)
      [] o.opt = "i" -> OptIgnoreList(a, out, o.optarg)
      [] o.opt = "w" -> OptWatchList(a, out, o.optarg)
      [] o.opt = "args" ->
            [args |-> a, out |-> out, code |-> EXIT_SUCCESS, stop |-> "out"]
      [] OTHER -> Usage(a, Append(out, "stderr: unknown option"),
                        EXIT_FAILURE)

\* readargs after the label out: the checks of -c, the default of the two
\* scope flags, parse_list.  No -t, -x or -o is among the options, so
\* theme_file and output_file are NULL and context is 0.
ReadOut(a, out) ==
    IF "FLG_SYNTAX_HIGHLIGHT" \in a.flags /\ "FLG_SHOW_LINES" \notin a.flags
    THEN Usage(a, Append(out, "stderr: -c needs -s"), EXIT_FAILURE)
    ELSE LET scoped ==
                 IF a.flags \cap {"FLG_ONLY_GLOBALS", "FLG_ONLY_LOCALS"} = {}
                 THEN [a EXCEPT !.flags =
                           @ \cup {"FLG_ONLY_GLOBALS", "FLG_ONLY_LOCALS"}]
                 ELSE a
             listed ==
                 IF scoped.flags \cap {"FLG_IGNR_LIST", "FLG_WATCH_LIST"} # {}
                 THEN [scoped EXCEPT !.ht_list = parse_list(scoped.list)]
                 ELSE scoped
         IN  [args |-> listed, out |-> out, code |-> EXIT_SUCCESS,
              stop |-> "parsed"]

\* a variable DIE of the debugged program: its name, where it hangs
\* (the compile unit or the monitored function) and whether
\* dw_parse_variable_location and dw_parse_variable_type accept it
Die(name, parent, supported) ==
    [name |-> name, parent |-> parent, supported |-> supported]

Dies == << Die(<<"a">>, "cu", TRUE),
           Die(<<"a", "b">>, "cu", TRUE),
           Die(<<"b">>, "cu", FALSE),
           Die(<<"b">>, "fn", TRUE),
           Die(<<"a">>, "fn", TRUE),
           Die(<<"b", "a">>, "fn", FALSE) >>

\* dw_parse_variable: TRUE when a descriptor comes back
dw_parse_variable(a, die) ==
    /\ IF "FLG_IGNR_LIST" \in a.flags
       THEN die.name \notin a.ht_list
       ELSE IF "FLG_WATCH_LIST" \in a.flags
            THEN die.name \in a.ht_list
            ELSE TRUE
    /\ die.supported

\* dw_get_all_variables: the indexes of the DIEs that get a descriptor,
\* globals first
dw_get_all_variables(a) ==
    LET visited(parent, flag) ==
            SelectSeq([i \in 1..Len(Dies) |-> i],
                      LAMBDA i : /\ flag \in a.flags
                                 /\ Dies[i].parent = parent
                                 /\ dw_parse_variable(a, Dies[i]))
    IN  visited("cu", "FLG_ONLY_GLOBALS") \o visited("fn", "FLG_ONLY_LOCALS")

ArgsRest ==
    /\ text = <<>>
    /\ breakpoints = <<>>
    /\ cpc = 0
    /\ cstack = <<>>
    /\ gmem = <<>>
    /\ ncalls = 0
    /\ depth = 0
    /\ init_vars = FALSE
    /\ prev_bp = 0
    /\ bal = <<>>
    /\ open = <<>>
    /\ grep = <<>>

ArgsStart(argv) ==
    /\ status = "readargs"
    /\ last = [kind |-> "args", argv |-> argv, optind |-> 1,
               args |-> ArgsInit, code |-> EXIT_SUCCESS]
    /\ evs = <<>>
    /\ context = <<>>
    /\ ArgsRest

\* main is entered with a command line of at most MaxArgs options
InitArgs ==
    \E argv \in SeqsUpTo(PlainOptions \cup ListOptions(MaxShortList), MaxArgs) :
        ArgsStart(argv)

\* command lines about the lists: at most MaxFilterArgs options, lists of
\* up to MaxList characters
InitFilter ==
    \E argv \in SeqsUpTo({Option("g", <<>>), Option("l", <<>>)}
                            \cup ListOptions(MaxList), MaxFilterArgs) :
        ArgsStart(argv)

ArgsUnchanged ==
    UNCHANGED <<text, breakpoints, cpc, cstack, gmem, ncalls, depth,
                init_vars, prev_bp, bal, open, grep>>

\* one turn of the option loop of readargs
ReadOption ==
    /\ status = "readargs"
    /\ last.optind <= Len(last.argv)
    /\ LET r == ReadSwitch(last.args, evs, last.argv[last.optind])
       IN  /\ status' = IF r.stop = "loop" THEN "readargs" ELSE r.stop
           /\ last' = [last EXCEPT !.args = r.args, !.code = r.code,
                                   !.optind = @ + 1]
           /\ evs' = r.out
    /\ UNCHANGED context
    /\ ArgsUnchanged

\* optparse_long returns -1: the options are used up
OptionsEnd ==
    /\ status = "readargs"
    /\ last.optind > Len(last.argv)
    /\ status' = "out"
    /\ UNCHANGED <<last, evs, context>>
    /\ ArgsUnchanged

\* the rest of readargs, from the label out
ReadArgsOut ==
    /\ status = "out"
    /\ LET r == ReadOut(last.args, evs)
       IN  /\ status' = r.stop
           /\ last' = [last EXCEPT !.args = r.args, !.code = r.code]
           /\ evs' = r.out
    /\ UNCHANGED context
    /\ ArgsUnchanged

\* setup reads the debug information: context takes the descriptors
ReadDebugInfo ==
    /\ status = "parsed"
    /\ status' = "debug_info"
    /\ context' = dw_get_all_variables(last.args)
    /\ evs' = Append(evs, "debug_info")
    /\ UNCHANGED last
    /\ ArgsUnchanged

\* setup spawns the child
SpawnChild ==
    /\ status = "debug_info"
    /\ status' = "spawned"
    /\ evs' = Append(evs, "spawn")
    /\ UNCHANGED <<last, context>>
    /\ ArgsUnchanged

NextArgs ==
    \/ ReadOption
    \/ OptionsEnd
    \/ ReadArgsOut
    \/ ReadDebugInfo
    \/ SpawnChild

SpecArgs == InitArgs /\ [][NextArgs]_vars

SpecFilter == InitFilter /\ [][NextArgs]_vars

\* the command line holds option o
HasOpt(o) == \E i \in 1..Len(last.argv) : last.argv[i].opt = o

\* the position at which both -i and -w have been given
PairAt ==
    CHOOSE k \in 1..Len(last.argv) :
        /\ last.argv[k].opt \in {"i", "w"}
        /\ \E j \in 1..(k - 1) :
              /\ last.argv[j].opt \in {"i", "w"}
              /\ last.argv[j].opt # last.argv[k].opt
        /\ \A m \in 1..(k - 1) :
              ~ /\ last.argv[m].opt \in {"i", "w"}
                /\ \E j \in 1..(m - 1) :
                      /\ last.argv[j].opt \in {"i", "w"}
                      /\ last.argv[j].opt # last.argv[m].opt

\* the run ended in the usage summary with a non-zero code, and neither
\* read the debug information nor spawned the child
RejectedEarly ==
    /\ status \notin {"parsed", "debug_info", "spawned"}
    /\ status = "exit" =>
          /\ last.code # 0
          /\ \E i \in 1..Len(evs) : evs[i] = "usage"
    /\ \A i \in 1..Len(evs) : evs[i] \notin {"debug_info", "spawn"}

\* C23: a command line that holds both -i and -w never gets to the debug
\* information or to the child, and when the run has exited it has printed
\* the usage summary and its exit code is not zero.
C23_ListsExclusive ==
    (last.kind = "args" /\ HasOpt("i") /\ HasOpt("w")
        /\ status \notin {"readargs", "out"})
    => RejectedEarly

\* C23 (amended): the same, for the command lines in which no -h, -v or
\* --args stands before the option that completes the pair.
C23_ListsExclusiveUnlessEarlierExit ==
    (last.kind = "args" /\ HasOpt("i") /\ HasOpt("w")
        /\ status \notin {"readargs", "out"}
        /\ \A j \in 1..(PairAt - 1) :
              last.argv[j].opt \notin {"h", "v", "args"})
    => RejectedEarly

C23_Witness ==
    /\ last.kind = "args"
    /\ status = "exit"
    /\ Len(last.argv) = 3
    /\ last.argv[1].opt = "w"
    /\ last.argv[2].opt = "w"
    /\ last.argv[3].opt = "i"
    /\ last.code = EXIT_FAILURE
    /\ evs = <<"stderr: mutually exclusive", "usage">>

\* the list argument of the last -i or -w of the command line
GivenList ==
    LET k == CHOOSE k \in 1..Len(last.argv) :
                 /\ last.argv[k].opt \in {"i", "w"}
                 /\ \A m \in (k + 1)..Len(last.argv) :
                       last.argv[m].opt \notin {"i", "w"}
    IN  last.argv[k].optarg

\* name n is one of the names of list l: with the blanks of l taken out, n
\* stands between two commas, or between a comma and an end of the list
Named(n, l) ==
    LET t == SelectSeq(l, LAMBDA c : c # " " /\ c # "\t")
    IN  /\ n # <<>>
        /\ \A i \in 1..Len(n) : n[i] # ","
        /\ \E i \in 1..Len(t) :
              /\ i + Len(n) - 1 <= Len(t)
              /\ SubSeq(t, i, i + Len(n) - 1) = n
              /\ i = 1 \/ t[i - 1] = ","
              /\ i + Len(n) - 1 = Len(t) \/ t[i + Len(n)] = ","

\* the scope of DIE d is one the command line selects
ScopeSelected(d) ==
    IF d.parent = "cu" THEN HasOpt("g") \/ ~HasOpt("l")
                       ELSE HasOpt("l") \/ ~HasOpt("g")

Monitored(i) == \E k \in 1..Len(context) : context[k] = i

RECURSIVE StaticPlan(_, _)
StaticPlan(tab, keep) ==
    IF keep = {} THEN tab
    ELSE LET l == CHOOSE l \in keep : \A m \in keep : l <= m
         IN  StaticPlan(try_add_symbol(tab, FLines, l), keep \ {l})

InitStatic ==
    /\ status = "running"
    /\ cpc = 0
    /\ cstack = <<Activation(0, [n \in {"x"} |-> <<0>>])>>
    /\ gmem = [n \in {"g"} |-> <<0>>]
    /\ \E keep \in SUBSET {Lines[S1]} :
           LET r == bp_insertbreakpoints(
                        StaticPlan(static_analysis(FLines, LowPc), keep),
                        OrigText)
           IN  text = r.text /\ breakpoints = r.tab
    /\ ncalls = 0
    /\ context = <<Function(MainVars, 0)>>
    /\ depth = 0
    /\ init_vars = FALSE
    /\ prev_bp = 0
    /\ evs = <<>>
    /\ last = [kind |-> "child", what |-> "start", actline |-> 0,
               actimg |-> NoImg, hline |-> 0]
    /\ bal = [d \in Labels |-> 0]
    /\ open = <<>>
    /\ grep = <<>>

SpecStatic == InitStatic /\ [][Next]_vars

\* the stop is handled as an entry of F
AtEntryTrap == Stopped /\ cpc = LowPc /\ cpc \in DOMAIN breakpoints

\* C25: at a trap on the entry address of F a frame is pushed exactly when
\* depth >= 1 and init_vars is false; otherwise the stack of frames keeps
\* its size.
C25_PushIffInsideAndInitialized ==
    [][AtEntryTrap =>
          /\ Len(context') \in {Len(context), Len(context) + 1}
          /\ Len(context') = Len(context) + 1
                <=> (depth >= 1 /\ ~init_vars)]_vars

\* the stop is handled as a return of F
AtReturnTrap ==
    /\ Stopped
    /\ cpc \in DOMAIN breakpoints
    /\ cpc # LowPc
    /\ cpc = Top(context).return_addr

\* C26: the stack of frames is never empty, its size is max(depth, 1),
\* depth is never negative, an entry trap adds exactly 1 to depth and a
\* return-address trap takes exactly 1 from it.
C26_DepthBookkeeping ==
    /\ [](/\ Len(context) >= 1
          /\ Len(context) = (IF depth > 1 THEN depth ELSE 1)
          /\ depth >= 0)
    /\ [][/\ AtEntryTrap => depth' = depth + 1
          /\ AtReturnTrap => depth' = depth - 1]_vars

\* Spec, whose variables are an int global and an int local: at the first
\* statement stop handled after an entry trap, init_vars is cleared, the
\* only event written is one 'Entering', and every variable of the top
\* frame holds what was read at this stop: a local scalar in scratch_value
\* and still not initialized, a global in value.
FirstStopSnapshots ==
    (last.kind = "handled" /\ last.handled = "stmt" /\ last.init) =>
        /\ ~init_vars
        /\ evs = <<MarkEvent("enter", Len(context))>>
        /\ \A i \in DOMAIN Top(context).vars :
              LET v == Top(context).vars[i]
              IN  IF v.scope = "global"
                  THEN v.value = last.img[v.name] /\ v.initialized
                  ELSE v.scratch_value = last.img[v.name] /\ ~v.initialized

\* C27: the first statement stop after an entry snapshots the variable of
\* the frame, clears init_vars and writes no change event, and the run goes
\* on, whatever the variable is and whatever the child's memory holds.
C27_FirstStopCompletes ==
    [][(status = "running" /\ init_vars) =>
          /\ status' = "running"
          /\ ~init_vars'
          /\ evs' = <<>>
          /\ ~TheVar'.initialized]_vars

\* C28: every event written for a global scalar has state 'has changed',
\* and its before-value is the snapshot the frame held for it, i.e. the
\* value read for it at the previous stop of the frame or when the frame
\* was initialized; a zero is never made up for a global.
C28_GlobalsInitializedAtOnce ==
    [][(Stopped /\ cpc \in DOMAIN breakpoints) =>
          \A i \in DOMAIN evs' :
              (evs'[i].kind = "change" /\ evs'[i].scope = "global") =>
                  /\ evs'[i].state = "has changed"
                  /\ VarNamed(Top(context).vars, evs'[i].name).initialized
                  /\ evs'[i].before =
                        VarNamed(Top(context).vars, evs'[i].name).value]_vars

\* C29: at an entry trap, when the return address already has a record the
\* table and the child's text are left as they were; when it has none,
\* exactly one record is added (the byte found there, line 0) and exactly
\* one byte of the text changes, to the trap opcode.  The table always
\* holds one record per address.
C29_ReturnBreakpointIdempotent ==
    /\ [](\A a \in DOMAIN breakpoints : breakpoints[a].addr = a)
    /\ [][AtEntryTrap =>
             LET ra == Top(cstack).ra
             IN  IF ra \in DOMAIN breakpoints
                 THEN breakpoints' = breakpoints /\ text' = text
                 ELSE /\ DOMAIN breakpoints' = DOMAIN breakpoints \cup {ra}
                      /\ \A a \in DOMAIN breakpoints :
                            breakpoints'[a] = breakpoints[a]
                      /\ breakpoints'[ra] = Breakpoint(ra, text[ra], 0)
                      /\ {a \in DOMAIN text : text'[a] # text[a]} = {ra}
                      /\ text'[ra] = BP_OPCODE]_vars

\* the inner activation was entered with a return address that is a planned
\* statement: its record is the planned one; the record of main's return
\* address was added by the first entry
C29_Witness ==
    /\ last.kind = "handled"
    /\ last.handled = "entry"
    /\ Len(context) = 2
    /\ Top(context).return_addr = S2
    /\ breakpoints[S2] = Breakpoint(S2, OrigByte(S2), Lines[S2])
    /\ RM1 \in DOMAIN breakpoints
    /\ breakpoints[RM1] = Breakpoint(RM1, OrigByte(RM1), 0)
    /\ text[RM1] = BP_OPCODE

\* F runs as called from main, and main has called F from both of its call
\* sites: the running activation is not the first one
CalledAgain ==
    /\ Len(cstack) = 2
    /\ {RM1, RM2} \subseteq DOMAIN breakpoints

C32_AllReleased ==
    status = "done" => context = <<>> /\ DOMAIN breakpoints = {}

\* the elements of v whose bytes differ between its snapshot and image new
DiffElems(v, new) ==
    {e \in 0..((v.byte_size \div v.size_per_element) - 1) :
        ElemBytes(v.value, e, v.size_per_element)
            # ElemBytes(new, e, v.size_per_element)}

\* C33: offmemcmp_generic on two blocks of n bytes, n a multiple of the
\* element size, returns -1 if and only if the blocks are equal, and
\* otherwise the element size times the index of the first differing
\* element.
C33_FirstDifferingElement ==
    \A i \in DOMAIN Top(context).vars :
        LET v == Top(context).vars[i]
            r == offmemcmp_generic(v.value, gmem[v.name], 0,
                                   v.size_per_element, v.byte_size, 0)
        IN  r = IF DiffElems(v, gmem[v.name]) = {} THEN -1
                ELSE v.size_per_element * Min(DiffElems(v, gmem[v.name]))

----------------------------------------------------------------------------
(* SpecHash: the hashtable of hashtable.c with pointer keys, as            *)
(* bp_createlist sets it up (hashtable_init with the splitmix64 default).  *)
(* A key is a 64-bit pointer <<high 32 bits, low 32 bits>>; a 64-bit word  *)
(* of the hash function is a function from bit number 0..63 to 0..1.       *)

HASHTABLE_DEFAULT_SIZE == 16

MaxAdds == 3

MaxFill == 9

\* keys 1..MaxFill and 15, and 2^32 + 15
HashKeys == {<<0, lo>> : lo \in (1..MaxFill) \cup {15}} \cup {<<1, 15>>}

HashValues == {1, 2}

RECURSIVE Pow2(_)
Pow2(n) == IF n = 0 THEN 1 ELSE 2 * Pow2(n - 1)

Word64 == 0..63

\* the word with bit i = f[i], as the tuple of its bits (bit i at i + 1)
WordFrom(f, n) ==
    <<f[n], f[n + 1], f[n + 2], f[n + 3], f[n + 4], f[n + 5], f[n + 6],
      f[n + 7]>>

Word(f) ==
    WordFrom(f, 0) \o WordFrom(f, 8) \o WordFrom(f, 16) \o WordFrom(f, 24)
        \o WordFrom(f, 32) \o WordFrom(f, 40) \o WordFrom(f, 48)
        \o WordFrom(f, 56)

\* bit i of a 32-bit half that is below 2^30
HalfBit(half, i) == IF i < 30 THEN (half \div Pow2(i)) % 2 ELSE 0

KeyBits(key) ==
    Word([i \in Word64 |-> IF i < 32 THEN HalfBit(key[2], i)
                           ELSE HalfBit(key[1], i - 32)])

\* a 64-bit constant from its eight bytes, least significant first
BytesBits(bytes) ==
    Word([i \in Word64 |-> (bytes[(i \div 8) + 1] \div Pow2(i % 8)) % 2])

\* 0xbf58476d1ce4e5b9
Mix1 == BytesBits(<<185, 229, 228, 28, 109, 71, 88, 191>>)

\* 0x94d049bb133111eb
Mix2 == BytesBits(<<235, 17, 49, 19, 187, 73, 208, 148>>)

Shr64(x, n) == Word([i \in Word64 |-> IF i + n <= 63 THEN x[i + n + 1] ELSE 0])

Xor64(x, y) == Word([i \in Word64 |-> (x[i + 1] + y[i + 1]) % 2])

\* byte n (0 = least significant) of a word
ByteOf(x, n) ==
    x[8 * n + 1] + 2 * x[8 * n + 2] + 4 * x[8 * n + 3] + 8 * x[8 * n + 4]
        + 16 * x[8 * n + 5] + 32 * x[8 * n + 6] + 64 * x[8 * n + 7]
        + 128 * x[8 * n + 8]

\* the sum of the byte products x[i] * y[k - i], i = 0..k
RECURSIVE ColSum(_, _, _, _)
ColSum(x, y, k, i) ==
    IF i > k THEN 0
    ELSE ByteOf(x, i) * ByteOf(y, k - i) + ColSum(x, y, k, i + 1)

\* column k of the product with the carry of the columns below
RECURSIVE Column(_, _, _)
Column(x, y, k) ==
    ColSum(x, y, k, 0) + (IF k = 0 THEN 0 ELSE Column(x, y, k - 1) \div 256)

\* x * y modulo 2^64
Mul64(x, y) ==
    BytesBits(<<Column(x, y, 0) % 256, Column(x, y, 1) % 256,
                Column(x, y, 2) % 256, Column(x, y, 3) % 256,
                Column(x, y, 4) % 256, Column(x, y, 5) % 256,
                Column(x, y, 6) % 256, Column(x, y, 7) % 256>>)

hashtable_splitmix64_based(key) ==
    LET x0 == KeyBits(key)
        x1 == Mul64(Xor64(x0, Shr64(x0, 30)), Mix1)
        x2 == Mul64(Xor64(x1, Shr64(x1, 27)), Mix2)
    IN  Xor64(x2, Shr64(x2, 31))

\* the hash of every key of the model, computed once
HashOf == [key \in HashKeys |-> hashtable_splitmix64_based(key)]

\* hash & (capacity - 1), capacity a power of two
RECURSIVE LowBits(_, _, _)
LowBits(x, i, capacity) ==
    IF Pow2(i) >= capacity THEN 0
    ELSE x[i + 1] * Pow2(i) + LowBits(x, i + 1, capacity)

hashtable_bucket_index(h, key) == LowBits(HashOf[key], 0, h.capacity)

\* (int)((uintptr_t)key1 - (uintptr_t)key2): the low 32 bits of the
\* difference
hashtable_cmp_ptr(key1, key2) == key1[2] - key2[2]

hashtable_init ==
    [capacity |-> HASHTABLE_DEFAULT_SIZE, elements |-> 0,
     bucket |-> [b \in 0..(HASHTABLE_DEFAULT_SIZE - 1) |-> <<>>]]

\* moves the entries of the old buckets, bucket by bucket and from the head
\* of each list, to the head of their list in the new buckets
RECURSIVE Rehash(_, _, _, _)
Rehash(h, old, i, new) ==
    IF i >= Len(old) THEN new
    ELSE LET e == old[i + 1]
             b == hashtable_bucket_index(h, e.key)
         IN  Rehash(h, old, i + 1, [new EXCEPT ![b] = <<e>> \o @])

RECURSIVE Chain(_, _, _)
Chain(bucket, i, n) ==
    IF i >= n THEN <<>> ELSE bucket[i] \o Chain(bucket, i + 1, n)

\* the position in list l of the first entry whose key compares equal, or 0
Found(l, key) ==
    LET M == {j \in DOMAIN l : hashtable_cmp_ptr(l[j].key, key) = 0}
    IN  IF M = {} THEN 0 ELSE Min(M)

hashtable_add(ht, key, value) ==
    LET h == IF 10 * ht.elements >= 6 * ht.capacity
             THEN LET g == [ht EXCEPT !.capacity = 2 * @]
                  IN  [g EXCEPT !.bucket =
                          Rehash(g, Chain(ht.bucket, 0, ht.capacity), 0,
                                 [b \in 0..(g.capacity - 1) |-> <<>>])]
             ELSE ht
        b == hashtable_bucket_index(h, key)
        j == Found(h.bucket[b], key)
    IN  IF j # 0
        THEN [h EXCEPT !.bucket[b][j].value = value]
        ELSE [h EXCEPT !.bucket[b] = <<[key |-> key, value |-> value]>> \o @,
                       !.elements = @ + 1]

NULL == 0

hashtable_get(ht, key) ==
    IF ht.elements < 1 THEN NULL
    ELSE LET l == ht.bucket[hashtable_bucket_index(ht, key)]
             j == Found(l, key)
         IN  IF j # 0 THEN l[j].value ELSE NULL

\* the table after keys 1..n were added, each with value 1
RECURSIVE Filled(_)
Filled(n) ==
    IF n = 0 THEN hashtable_init
    ELSE hashtable_add(Filled(n - 1), <<0, n>>, 1)

InitHash ==
    /\ \E n \in 0..MaxFill :
           /\ breakpoints = Filled(n)
           /\ last = [kind |-> "hashtable",
                      added |-> [k \in {<<0, lo>> : lo \in 1..n} |-> 1]]
    /\ status = "running"
    /\ cpc = 0
    /\ cstack = <<>>
    /\ gmem = <<>>
    /\ text = <<>>
    /\ ncalls = 0
    /\ context = <<>>
    /\ depth = 0
    /\ init_vars = FALSE
    /\ prev_bp = 0
    /\ evs = <<>>
    /\ bal = <<>>
    /\ open = <<>>
    /\ grep = <<>>

\* hashtable_add(&ht, key, value); last.added remembers the value most
\* recently added under each key
HashAdd ==
    /\ ncalls < MaxAdds
    /\ ncalls' = ncalls + 1
    /\ \E key \in HashKeys, value \in HashValues :
           /\ breakpoints' = hashtable_add(breakpoints, key, value)
           /\ last' = [last EXCEPT !.added =
                          [k \in DOMAIN @ \cup {key} |->
                              IF k = key THEN value ELSE @[k]]]
    /\ UNCHANGED <<status, cpc, cstack, gmem, text, context, depth,
                   init_vars, prev_bp, evs, bal, open, grep>>

NextHash == HashAdd

SpecHash == InitHash /\ [][NextHash]_vars

\* C34: after any sequence of adds, hashtable_get returns for every key the
\* value most recently added under exactly that key and NULL for a key
\* never added, and the element count is the number of distinct keys added.
C34_GetMostRecent ==
    /\ \A key \in HashKeys :
           hashtable_get(breakpoints, key)
               = IF key \in DOMAIN last.added THEN last.added[key] ELSE NULL
    /\ breakpoints.elements = Cardinality(DOMAIN last.added)

----------------------------------------------------------------------------
(* SpecArray: the growable pointer array of array.c.  The array starts as  *)
(* array_init and array_addtest(size) leave it; buf is the tuple of its    *)
(* capacity slots (slot pos at pos + 1).  junk is what a slot holds that   *)
(* realloc added and nothing wrote yet, oob what a read past the buffer    *)
(* gives.                                                                  *)

ARRAY_UTILS_DEFAULT_SIZE == 16

MaxSize == 17

MaxOps == 2

\* a pointer value that is no element
Junk == 99

array_init ==
    [capacity |-> ARRAY_UTILS_DEFAULT_SIZE, elements |-> 0,
     buf |-> [k \in 1..ARRAY_UTILS_DEFAULT_SIZE |-> NULL]]

array_add(array, e, junk) ==
    LET a == IF array.elements >= array.capacity
             THEN [array EXCEPT
                      !.buf = @ \o [k \in 1..array.capacity |-> junk],
                      !.capacity = 2 * @]
             ELSE array
    IN  [a EXCEPT !.buf[a.elements + 1] = e, !.elements = @ + 1]

\* array_remove that fills the hole with the last element
array_remove_Swap(array, pos) ==
    IF pos >= array.elements
    THEN [array |-> array, ret |-> NULL]
    ELSE [array |-> [array EXCEPT
                        !.buf[pos + 1] = array.buf[array.elements],
                        !.elements = @ - 1],
          ret |-> array.buf[pos + 1]]

\* memmove of the slots after pos one slot down; the last slot keeps what
\* it held
array_remove(array, pos) ==
    IF pos >= array.elements
    THEN [array |-> array, ret |-> NULL]
    ELSE [array |-> [array EXCEPT
                        !.buf = [k \in DOMAIN @ |->
                                    IF k > pos /\ k < array.elements
                                    THEN @[k + 1] ELSE @[k]],
                        !.elements = @ - 1],
          ret |-> array.buf[pos + 1]]

array_get(array, pos, oob) ==
    IF pos > array.elements THEN NULL
    ELSE IF pos < array.capacity THEN array.buf[pos + 1] ELSE oob

array_size(array) == array.elements

\* array_addtest: elements 1..size in this order
RECURSIVE array_addtest(_, _)
array_addtest(size, junk) ==
    IF size = 0 THEN array_init
    ELSE array_add(array_addtest(size - 1, junk), size, junk)

InitArray ==
    /\ \E size \in 0..MaxSize, junk \in {NULL, Junk} :
           /\ context = array_addtest(size, junk)
           /\ last = [op |-> "addtest", pos |-> 0, ret |-> NULL,
                      list |-> [k \in 1..size |-> k],
                      adds |-> size, removes |-> 0]
    /\ ncalls = 0
    /\ status = "running"
    /\ cpc = 0
    /\ cstack = <<>>
    /\ gmem = <<>>
    /\ text = <<>>
    /\ depth = 0
    /\ init_vars = FALSE
    /\ prev_bp = 0
    /\ breakpoints = <<>>
    /\ evs = <<>>
    /\ bal = <<>>
    /\ open = <<>>
    /\ grep = <<>>

ArrayUnchanged ==
    UNCHANGED <<status, cpc, cstack, gmem, text, depth, init_vars, prev_bp,
                breakpoints, evs, bal, open, grep>>

\* array_add of a new element; last.list is the list of elements the array
\* is meant to hold
ArrayAdd ==
    /\ ncalls < MaxOps
    /\ ncalls' = ncalls + 1
    /\ \E junk \in {NULL, Junk} :
           LET e == MaxSize + ncalls + 1
           IN  /\ context' = array_add(context, e, junk)
               /\ last' = [last EXCEPT !.op = "add", !.pos = 0, !.ret = NULL,
                                       !.list = Append(@, e),
                                       !.adds = @ + 1]
    /\ ArrayUnchanged

ArrayRemove ==
    /\ ncalls < MaxOps
    /\ ncalls' = ncalls + 1
    /\ \E pos \in 0..(MaxSize + MaxOps) :
           LET r == array_remove(context, pos)
           IN  /\ context' = r.array
               /\ last' = [last EXCEPT
                      !.op = "remove", !.pos = pos, !.ret = r.ret,
                      !.list = IF pos < Len(@)
                               THEN SubSeq(@, 1, pos)
                                        \o SubSeq(@, pos + 2, Len(@))
                               ELSE @,
                      !.removes = IF r.ret # NULL THEN @ + 1 ELSE @]
    /\ ArrayUnchanged

ArrayGet ==
    /\ ncalls < MaxOps
    /\ ncalls' = ncalls + 1
    /\ \E pos \in 0..(2 * ARRAY_UTILS_DEFAULT_SIZE), oob \in {NULL, Junk} :
           last' = [last EXCEPT !.op = "get", !.pos = pos,
                                !.ret = array_get(context, pos, oob)]
    /\ UNCHANGED context
    /\ ArrayUnchanged

NextArray == ArrayAdd \/ ArrayRemove \/ ArrayGet

SpecArray == InitArray /\ [][NextArray]_vars

\* C35: array_get returns NULL for every position at or past the number of
\* elements, also for the position equal to it and when the array is full,
\* and the element at the position otherwise.
C35_GetBounds ==
    last.op = "get" =>
        last.ret = IF last.pos < Len(last.list) THEN last.list[last.pos + 1]
                   ELSE NULL

\* C36: after any sequence of adds and removes the array holds the elements
\* added and not removed in the order they were added, a remove returned
\* the element that was at the position or NULL for an invalid position,
\* and the size is the number of adds minus the successful removes.
C36_OrderPreserved ==
    /\ [](/\ array_size(context) = Len(last.list)
          /\ array_size(context) = last.adds - last.removes
          /\ \A pos \in 0..(Len(last.list) - 1) :
                 context.buf[pos + 1] = last.list[pos + 1])
    /\ [][\A pos \in 0..(MaxSize + MaxOps) :
              (last'.op = "remove" /\ last'.pos = pos) =>
                  last'.ret = IF pos < Len(last.list) THEN last.list[pos + 1]
                              ELSE NULL]_vars

\* an element in the middle of an array that has doubled was removed
C36_Witness ==
    /\ last.op = "remove"
    /\ last.ret # NULL
    /\ last.pos < array_size(context) - 1
    /\ context.capacity > ARRAY_UTILS_DEFAULT_SIZE

----------------------------------------------------------------------------
(* SpecPtrace: pt_readmemory and pt_writememory on the last MapLen bytes   *)
(* of a mapping of the child (addresses 0..MapLen - 1; nothing is mapped   *)
(* at MapLen and above).  A buffer of len bytes is a function on           *)
(* 0..len - 1.                                                             *)

MapLen == 16

MaxBytes == 9

MaxPtOps == 2

Mapped(addr, len) == addr + len <= MapLen

\* PTRACE_PEEKDATA: the word at addr, or -1 if a byte of it is not mapped
Peek(mem, addr) ==
    IF Mapped(addr, WordBytes) THEN pt_readmemory64(mem, addr)
    ELSE [i \in 0..(WordBytes - 1) |-> ErrByte]

\* PTRACE_POKEDATA: writes the word at addr, or nothing if a byte of it is
\* not mapped
Poke(mem, addr, word) ==
    IF Mapped(addr, WordBytes) THEN pt_writememory64(mem, addr, word)
    ELSE mem

\* pt_readmemory with process_vm_readv: fewer than len bytes transferred
\* give NULL
pt_readmemory_readv(mem, addr, len) ==
    IF Mapped(addr, len) THEN [i \in 0..(len - 1) |-> mem[addr + i]]
    ELSE NULL

\* pt_readmemory with one PTRACE_PEEKDATA per word and one more for the
\* len % sizeof(long) bytes that remain
pt_readmemory_ptrace(mem, addr, len) ==
    [i \in 0..(len - 1) |->
        Peek(mem, addr + WordBytes * (i \div WordBytes))[i % WordBytes]]

\* the loop over the len / sizeof(long) whole words
RECURSIVE PokeBlocks(_, _, _, _, _)
PokeBlocks(mem, addr, data, i, j) ==
    IF i >= j THEN mem
    ELSE PokeBlocks(Poke(mem, addr + i * WordBytes,
                         [k \in 0..(WordBytes - 1) |->
                             data[i * WordBytes + k]]),
                    addr, data, i + 1, j)

\* pt_writememory; temp_data holds the last whole word of data, or junk if
\* there was none, when the remaining bytes are copied into it
pt_writememory(mem, addr, data, len, junk) ==
    LET j == len \div WordBytes
        r == len % WordBytes
        temp_data == [k \in 0..(WordBytes - 1) |->
                         IF j > 0 THEN data[(j - 1) * WordBytes + k]
                         ELSE junk]
    IN  IF r # 0
        THEN Poke(PokeBlocks(mem, addr, data, 0, j), addr + j * WordBytes,
                  [k \in 0..(WordBytes - 1) |->
                      IF k < r THEN data[j * WordBytes + k]
                      ELSE temp_data[k]])
        ELSE PokeBlocks(mem, addr, data, 0, j)

InitPtrace ==
    /\ gmem = [a \in 0..(MapLen - 1) |-> OrigByte(a)]
    /\ last = [op |-> "start"]
    /\ ncalls = 0
    /\ status = "running"
    /\ cpc = 0
    /\ cstack = <<>>
    /\ text = <<>>
    /\ context = <<>>
    /\ depth = 0
    /\ init_vars = FALSE
    /\ prev_bp = 0
    /\ breakpoints = <<>>
    /\ evs = <<>>
    /\ bal = <<>>
    /\ open = <<>>
    /\ grep = <<>>

PtraceUnchanged ==
    UNCHANGED <<status, cpc, cstack, text, context, depth, init_vars,
                prev_bp, breakpoints, evs, bal, open, grep>>

\* pt_writememory(child, addr, data, len) into mapped memory; data holds
\* the bytes 1..len
PtWrite ==
    /\ ncalls < MaxPtOps
    /\ ncalls' = ncalls + 1
    /\ \E addr \in 0..(MapLen - 1), len \in 0..MaxBytes,
          junk \in {0, ErrByte} :
           LET data == [i \in 0..(len - 1) |-> i + 1]
           IN  /\ Mapped(addr, len)
               /\ gmem' = pt_writememory(gmem, addr, data, len, junk)
               /\ last' = [op |-> "write", addr |-> addr, len |-> len,
                           data |-> data, before |-> gmem]
    /\ PtraceUnchanged

\* pt_readmemory(child, addr, len), as either build computes it
PtRead ==
    /\ ncalls < MaxPtOps
    /\ ncalls' = ncalls + 1
    /\ \E addr \in 0..(MapLen - 1), len \in 0..MaxBytes :
           last' = [op |-> "read", addr |-> addr, len |-> len,
                    readv |-> pt_readmemory_readv(gmem, addr, len),
                    ptrace |-> pt_readmemory_ptrace(gmem, addr, len)]
    /\ UNCHANGED gmem
    /\ PtraceUnchanged

NextPtrace == PtWrite \/ PtRead

SpecPtrace == InitPtrace /\ [][NextPtrace]_vars

\* C37: pt_writememory writes the len bytes of data to addr..addr+len-1 and
\* leaves every other byte of the child's memory as it was, for every len.
C37_WritesExactlyLen ==
    last.op = "write" =>
        \A a \in DOMAIN gmem :
            gmem[a] = IF last.addr <= a /\ a < last.addr + last.len
                      THEN last.data[a - last.addr]
                      ELSE last.before[a]

\* C38: both ways pt_readmemory reads the child give the same result: the
\* same len bytes, and the same outcome when the read fails.
C38_ReadPathsAgree ==
    last.op = "read" => last.readv = last.ptrace

----------------------------------------------------------------------------
(* SpecLine: the context lines line_detailed_printer prints around the     *)
(* changed line line_no of a source file of size lines with -x context.    *)

MaxSource == 6

MaxContext == 7

\* while (start < end): one line per index, numbered start + 1 and fetched
\* with array_get(&line_ptr, start, NULL)
RECURSIVE PrintRange(_, _)
PrintRange(start, end) ==
    IF start < end
    THEN <<[line_no |-> start + 1, pos |-> start]>>
             \o PrintRange(start + 1, end)
    ELSE <<>>

\* the lines before: line_no - args.context is an unsigned difference,
\* greater than 0 unless both are equal; start is its value minus one
\* converted to int
LinesBefore(line_no, args_context) ==
    IF args_context # 0
    THEN PrintRange(IF line_no # args_context
                    THEN line_no - args_context - 1 ELSE 0,
                    line_no - 1)
    ELSE <<>>

LinesAfter(line_no, args_context, size) ==
    IF args_context # 0
    THEN PrintRange(line_no,
                    IF line_no + args_context <= size
                    THEN line_no + args_context
                    ELSE size - 1)
    ELSE <<>>

line_detailed_printer(line_no, args_context, size) ==
    [before |-> LinesBefore(line_no, args_context),
     after |-> LinesAfter(line_no, args_context, size)]

InitLine ==
    /\ \E size \in 1..MaxSource, args_context \in 0..MaxContext :
           \E line_no \in 1..size :
               last = [op |-> "change", line_no |-> line_no,
                       context |-> args_context, size |-> size]
    /\ evs = <<>>
    /\ ncalls = 0
    /\ status = "running"
    /\ cpc = 0
    /\ cstack = <<>>
    /\ gmem = <<>>
    /\ text = <<>>
    /\ context = <<>>
    /\ depth = 0
    /\ init_vars = FALSE
    /\ prev_bp = 0
    /\ breakpoints = <<>>
    /\ bal = <<>>
    /\ open = <<>>
    /\ grep = <<>>

\* line_detailed_printer for the change at last.line_no
LinePrint ==
    /\ last.op = "change"
    /\ last' = [last EXCEPT !.op = "printed"]
    /\ evs' = line_detailed_printer(last.line_no, last.context, last.size)
    /\ UNCHANGED <<status, cpc, cstack, gmem, text, ncalls, context, depth,
                   init_vars, prev_bp, breakpoints, bal, open, grep>>

NextLine == LinePrint

SpecLine == InitLine /\ [][NextLine]_vars

Max(S) == CHOOSE x \in S : \A y \in S : y <= x

\* the line numbers of a printed range
LineNumbers(printed) == [i \in DOMAIN printed |-> printed[i].line_no]

\* the numbers from to first to last, ascending
Range(first, last_no) == [i \in 1..(last_no - first + 1) |-> first + i - 1]

\* C39: with context N around a change at line L of a file of S lines the
\* lines printed before are max(1, L - N)..L - 1, the lines printed after
\* are L + 1..min(S, L + N), and no line outside 0..S - 1 is asked for.
C39_ContextWindow ==
    last.op = "printed" =>
        /\ LineNumbers(evs.before)
               = Range(Max({1, last.line_no - last.context}),
                       last.line_no - 1)
        /\ LineNumbers(evs.after)
               = Range(last.line_no + 1,
                       Min({last.size, last.line_no + last.context}))
        /\ \A i \in DOMAIN evs.before :
               evs.before[i].pos \in 0..(last.size - 1)
        /\ \A i \in DOMAIN evs.after :
               evs.after[i].pos \in 0..(last.size - 1)

----------------------------------------------------------------------------
(* SpecSearch: binsearch_lines on a line list sorted by line number, as    *)
(* static_analysis sorts it before it looks lines up.                      *)

\* the lists of up to MaxLines records in ascending order of line number
SortedLists ==
    {t \in UNION {[1..n -> LineRecords] : n \in 0..MaxLines} :
        SortedByLine(t)}

InitSearch ==
    /\ \E t \in SortedLists : last = [op |-> "sorted", lines |-> t]
    /\ ncalls = 0
    /\ status = "running"
    /\ cpc = 0
    /\ cstack = <<>>
    /\ gmem = <<>>
    /\ text = <<>>
    /\ context = <<>>
    /\ depth = 0
    /\ init_vars = FALSE
    /\ prev_bp = 0
    /\ breakpoints = <<>>
    /\ evs = <<>>
    /\ bal = <<>>
    /\ open = <<>>
    /\ grep = <<>>

\* idx = binsearch_lines(lines, line_no), for a line of F, the line before
\* or the line after
Search ==
    /\ last.op = "sorted"
    /\ \E line_no \in (9..(10 + MaxLineNos)) :
           last' = [op |-> "searched", lines |-> last.lines,
                    line_no |-> line_no,
                    idx |-> binsearch_lines(last.lines, line_no)]
    /\ UNCHANGED <<status, cpc, cstack, gmem, text, ncalls, context, depth,
                   init_vars, prev_bp, breakpoints, evs, bal, open, grep>>

NextSearch == Search

SpecSearch == InitSearch /\ [][NextSearch]_vars

\* the 0-based indices of the records with the line number
Occurrences(lines, line_no) ==
    {i \in 0..(Len(lines) - 1) : lines[i + 1].line_no = line_no}

\* C40: on a list sorted ascending by line number, empty lists and repeated
\* line numbers included, binsearch_lines returns the smallest index whose
\* record has the line number, or -1 if there is none.
C40_LeftmostOccurrence ==
    last.op = "searched" =>
        last.idx = IF Occurrences(last.lines, last.line_no) = {} THEN 0 - 1
                   ELSE Min(Occurrences(last.lines, last.line_no))

\* the line searched for occurs twice, after a record of a smaller line
C40_Witness ==
    /\ last.op = "searched"
    /\ Occurrences(last.lines, last.line_no) = {1, 2}
    /\ last.idx = 1


====
